---- MODULE Spec2Model ----
(***************************************************************************)
(* A model of pytonl: the TONL encoder (encoder.py), decoder (decoder.py)  *)
(* and the lexical utilities (utils.py).                                    *)
(*                                                                         *)
(* Text is modelled character by character: a Python str is a sequence of  *)
(* one-character strings, a document is a sequence of lines.  A value of    *)
(* the tree model (JSONValue) is a record [t |-> tag, v |-> payload].       *)
(***************************************************************************)
EXTENDS Integers, Sequences, FiniteSets, TLC

VARIABLES
    pc,         \* control location of the caller / of decode
    s,          \* quote round trip: the string handed to quote_string
    quoted,     \* quote round trip: quote_string(s)
    unquoted,   \* quote round trip: unquote_string(quoted)
    fields,     \* splitting: the caller's list of fields
    delim,      \* splitting: the delimiter used to join and split
    tokens,     \* splitting: the tokens that were joined (fields, raw or quoted)
    row,        \* splitting: the joined line
    parts,      \* splitting: split_line_by_delimiter(row, delim)
    doc,        \* the lines a caller writes into a document handed to decode
    data,       \* the value tree handed to encode
    options,    \* the EncodeOptions handed to encode
    text,       \* the TONL text: encode's result, decode's argument
    lines,      \* decode: tonl_str.splitlines()
    delimiter,  \* decode: self.delimiter of the TONLDecoder
    start_idx,  \* decode: the cursor of _parse_headers, then its result
    top_i,      \* decode: i, the cursor of the top-level loop over data_lines
    result,     \* decode: the top-level result being built
    ret,        \* decode: the returned value
    error,      \* decode: the exception raised, "" if none
    strict      \* decode: self.options.strict of the TONLDecoder

quoteVars == <<s, quoted, unquoted>>
splitVars == <<fields, delim, tokens, row, parts>>
encodeVars == <<doc, data, options, text>>
decodeVars == <<lines, delimiter, start_idx, top_i, result, ret, error, strict>>
vars == <<pc, quoteVars, splitVars, encodeVars, decodeVars>>

(***************************************************************************)
(* Bounds of the model.                                                    *)
(***************************************************************************)
MaxStrLen == 4
MaxRowChars == 4
MaxLines == 3
MaxLiteralLen == 3
MaxBlockLines == 3

(***************************************************************************)
(* Characters and Python's str methods.                                    *)
(***************************************************************************)
DQ == "\""
BS == "\\"
NL == "\n"
TAB == "\t"
CR == "\r"

Digits == <<"0", "1", "2", "3", "4", "5", "6", "7", "8", "9">>
LowerLetters == <<"a", "b", "c", "d", "e", "f", "g", "h", "i", "j", "k", "l", "m",
                  "n", "o", "p", "q", "r", "s", "t", "u", "v", "w", "x", "y", "z">>
UpperLetters == <<"A", "B", "C", "D", "E", "F", "G", "H", "I", "J", "K", "L", "M",
                  "N", "O", "P", "Q", "R", "S", "T", "U", "V", "W", "X", "Y", "Z">>

IsDigit(c) == \E i \in 1..10 : Digits[i] = c
IsLower(c) == \E i \in 1..26 : LowerLetters[i] = c
IsUpper(c) == \E i \in 1..26 : UpperLetters[i] = c
IsAlnum(c) == IsDigit(c) \/ IsLower(c) \/ IsUpper(c)
IsWord(c) == IsAlnum(c) \/ c = "_"
IsSpace(c) == c \in {" ", TAB, NL, CR}

ToLowerChar(c) == IF IsUpper(c) THEN LowerLetters[CHOOSE i \in 1..26 : UpperLetters[i] = c] ELSE c
Lower(str) == [i \in 1..Len(str) |-> ToLowerChar(str[i])]

Drop(str, n) == SubSeq(str, n + 1, Len(str))
Take(str, n) == SubSeq(str, 1, n)

StartsWith(str, p) == Len(str) >= Len(p) /\ Take(str, Len(p)) = p
EndsWith(str, p) == Len(str) >= Len(p) /\ Drop(str, Len(str) - Len(p)) = p
StartsAt(str, i, p) == i >= 1 /\ i + Len(p) - 1 <= Len(str) /\ SubSeq(str, i, i + Len(p) - 1) = p
Contains(str, p) == \E i \in 1..(Len(str) + 1) : StartsAt(str, i, p)
HasChar(str, c) == \E i \in 1..Len(str) : str[i] = c

RECURSIVE LStrip(_)
LStrip(str) == IF str # <<>> /\ IsSpace(str[1]) THEN LStrip(Tail(str)) ELSE str
RECURSIVE RStrip(_)
RStrip(str) ==
    IF str # <<>> /\ IsSpace(str[Len(str)]) THEN RStrip(Take(str, Len(str) - 1)) ELSE str
Strip(str) == RStrip(LStrip(str))

\* str.replace(old, new) for a non-empty old: leftmost, non-overlapping.
RECURSIVE Replace(_, _, _)
Replace(str, old, new) ==
    IF Len(str) < Len(old) THEN str
    ELSE IF StartsWith(str, old) THEN new \o Replace(Drop(str, Len(old)), old, new)
    ELSE <<str[1]>> \o Replace(Tail(str), old, new)

\* sep.join(items)
RECURSIVE Join(_, _)
Join(items, sep) ==
    IF items = <<>> THEN <<>>
    ELSE IF Len(items) = 1 THEN items[1]
    ELSE items[1] \o sep \o Join(Tail(items), sep)

TQ == <<DQ, DQ, DQ>>

(***************************************************************************)
(* Values of the tree model.                                               *)
(***************************************************************************)
VNull == [t |-> "null", v |-> 0]
VBool(b) == [t |-> "bool", v |-> b]
VInt(n) == [t |-> "int", v |-> n]
VFloat(txt) == [t |-> "float", v |-> txt]
VStr(str) == [t |-> "str", v |-> str]
VList(items) == [t |-> "list", v |-> items]
VMap(pairs) == [t |-> "map", v |-> pairs]

(***************************************************************************)
(* utils.py: quoting.                                                      *)
(***************************************************************************)
quote_string(value) ==
    IF HasChar(value, NL) \/ Contains(value, TQ)
    THEN TQ \o Replace(Replace(value, <<BS>>, <<BS, BS>>), TQ, <<BS>> \o TQ) \o TQ
    ELSE <<DQ>> \o Replace(Replace(value, <<BS>>, <<BS, BS>>), <<DQ>>, <<DQ, DQ>>) \o <<DQ>>

unquote_string(value0) ==
    LET value == Strip(value0) IN
    IF StartsWith(value, TQ) /\ EndsWith(value, TQ) /\ Len(value) >= 6
    THEN Replace(Replace(SubSeq(value, 4, Len(value) - 3), <<BS>> \o TQ, TQ), <<BS, BS>>, <<BS>>)
    ELSE IF StartsWith(value, <<DQ>>) /\ EndsWith(value, <<DQ>>) /\ Len(value) >= 2
    THEN Replace(Replace(SubSeq(value, 2, Len(value) - 1), <<DQ, DQ>>, <<DQ>>), <<BS, BS>>, <<BS>>)
    ELSE value

(***************************************************************************)
(* utils.py: numeric literals, needs_quoting, primitive tokens.            *)
(***************************************************************************)
RECURSIVE SkipDigits(_, _)
SkipDigits(str, i) == IF i <= Len(str) /\ IsDigit(str[i]) THEN SkipDigits(str, i + 1) ELSE i

\* "$" of Python's re: the end of the string, or just before a final newline.
AtEnd(str, i) == i = Len(str) + 1 \/ (i = Len(str) /\ str[i] = NL)

\* re.match(r"^-?\d+\.?\d*([eE][+-]?\d+)?$", s)
is_number(str) ==
    LET a == IF str # <<>> /\ str[1] = "-" THEN 2 ELSE 1
        b == SkipDigits(str, a)
        c == IF b <= Len(str) /\ str[b] = "." THEN b + 1 ELSE b
        d == SkipDigits(str, c)
        e == IF d + 1 <= Len(str) /\ str[d + 1] \in {"+", "-"} THEN d + 2 ELSE d + 1
        f == SkipDigits(str, e)
    IN  /\ b > a
        /\ \/ AtEnd(str, d)
           \/ /\ d <= Len(str)
              /\ str[d] \in {"e", "E"}
              /\ f > e
              /\ AtEnd(str, f)

ReservedWords ==
    { <<"n", "u", "l", "l">>, <<"t", "r", "u", "e">>, <<"f", "a", "l", "s", "e">>,
      <<"u", "n", "d", "e", "f", "i", "n", "e", "d">>,
      <<"i", "n", "f", "i", "n", "i", "t", "y">>,
      <<"-", "i", "n", "f", "i", "n", "i", "t", "y">>, <<"n", "a", "n">> }

\* needs_quoting with the reserved words compared as written, not lower-cased
needs_quoting_as_written(value, dlm, in_single_line_object, in_tabular_context) ==
    \/ value = <<>>
    \/ Contains(value, dlm)
    \/ \E c \in {NL, CR, TAB, DQ, BS} : HasChar(value, c)
    \/ ~in_tabular_context /\ HasChar(value, ":")
    \/ value # Strip(value)
    \/ value \in ReservedWords
    \/ is_number(value)

needs_quoting(value, dlm, in_single_line_object, in_tabular_context) ==
    \/ value = <<>>
    \/ Contains(value, dlm)
    \/ \E c \in {NL, CR, TAB, DQ, BS} : HasChar(value, c)
    \/ ~in_tabular_context /\ HasChar(value, ":")
    \/ value # Strip(value)
    \/ Lower(value) \in ReservedWords
    \/ is_number(value)

RECURSIVE DigitsToNat(_, _)
DigitsToNat(str, acc) ==
    IF str = <<>> THEN acc ELSE DigitsToNat(Tail(str), 10 * acc + (CHOOSE i \in 1..10 : Digits[i] = str[1]) - 1)

\* int(literal) for a literal matching -?\d+
ParseInt(str) ==
    IF str[1] = "-" THEN 0 - DigitsToNat(Tail(str), 0) ELSE DigitsToNat(str, 0)

RECURSIVE DropTrailingZeros(_)
DropTrailingZeros(str) ==
    IF str # <<>> /\ str[Len(str)] = "0" THEN DropTrailingZeros(Take(str, Len(str) - 1)) ELSE str

\* float(literal) for a literal matching the numeric grammar: the float is kept as
\* its sign, whole part, fraction digits (trailing zeros dropped) and exponent.
ParseFloat(str) ==
    LET neg == str[1] = "-"
        a == IF neg THEN 2 ELSE 1
        b == SkipDigits(str, a)
        c == IF b <= Len(str) /\ str[b] = "." THEN b + 1 ELSE b
        d == SkipDigits(str, c)
        hasExp == d <= Len(str)
        expTxt == Drop(str, d)
        expDigits == IF hasExp /\ expTxt # <<>> /\ expTxt[1] = "+" THEN Tail(expTxt) ELSE expTxt
    IN  VFloat([neg |-> neg,
                whole |-> DigitsToNat(SubSeq(str, a, b - 1), 0),
                frac |-> DropTrailingZeros(SubSeq(str, c, d - 1)),
                exp |-> IF hasExp THEN ParseInt(expDigits) ELSE 0])

parse_primitive_value(value_str) ==
    LET trimmed == Strip(value_str)
        lower_val == Lower(trimmed)
    IN  IF StartsWith(trimmed, <<DQ>>) /\ EndsWith(trimmed, <<DQ>>)
        THEN VStr(unquote_string(trimmed))
        ELSE IF trimmed = <<"n", "u", "l", "l">> \/ trimmed = <<>> THEN VNull
        ELSE IF trimmed = <<"t", "r", "u", "e">> THEN VBool(TRUE)
        ELSE IF trimmed = <<"f", "a", "l", "s", "e">> THEN VBool(FALSE)
        ELSE IF is_number(trimmed)
        THEN IF HasChar(trimmed, ".") \/ HasChar(lower_val, "e")
             THEN ParseFloat(trimmed)
             ELSE VInt(ParseInt(trimmed))
        ELSE IF lower_val = <<"i", "n", "f", "i", "n", "i", "t", "y">> THEN VFloat([special |-> "inf"])
        ELSE IF lower_val = <<"-", "i", "n", "f", "i", "n", "i", "t", "y">> THEN VFloat([special |-> "-inf"])
        ELSE IF lower_val = <<"n", "a", "n">> THEN VFloat([special |-> "nan"])
        ELSE VStr(trimmed)

(***************************************************************************)
(* utils.py: split_line_by_delimiter, a scanner with the modes plain,      *)
(* inQuote and inTripleQuote.  i is the 1-based position of char.          *)
(***************************************************************************)
CharAt(line, i) == IF i <= Len(line) THEN line[i] ELSE "None"

RECURSIVE SplitScanAnyComma(_, _, _, _, _, _)
SplitScanAnyComma(line, dlm, i, mode, current_field, acc) ==
    IF i > Len(line) THEN Append(acc, Strip(current_field))
    ELSE LET char == line[i]
             next_char == CharAt(line, i + 1)
             next_next_char == CharAt(line, i + 2)
         IN  IF mode = "plain"
             THEN IF char = DQ
                  THEN IF next_char = DQ /\ next_next_char = DQ
                       THEN SplitScanAnyComma(line, dlm, i + 3, "inTripleQuote",
                                              current_field \o TQ, acc)
                       ELSE SplitScanAnyComma(line, dlm, i + 1, "inQuote",
                                              Append(current_field, char), acc)
                  ELSE IF char = BS /\ next_char = ","
                  THEN SplitScanAnyComma(line, dlm, i + 2, mode, current_field \o <<",">>, acc)
                  ELSE IF char = ","
                  THEN SplitScanAnyComma(line, dlm, i + 1, mode, <<>>,
                                         Append(acc, Strip(current_field)))
                  ELSE SplitScanAnyComma(line, dlm, i + 1, mode, Append(current_field, char), acc)
             ELSE IF mode = "inQuote"
             THEN IF char = DQ
                  THEN IF next_char = DQ
                       THEN SplitScanAnyComma(line, dlm, i + 2, mode,
                                              current_field \o <<DQ, DQ>>, acc)
                       ELSE SplitScanAnyComma(line, dlm, i + 1, "plain",
                                              Append(current_field, char), acc)
                  ELSE SplitScanAnyComma(line, dlm, i + 1, mode, Append(current_field, char), acc)
             ELSE IF char = DQ /\ next_char = DQ /\ next_next_char = DQ
                  THEN SplitScanAnyComma(line, dlm, i + 3, "plain", current_field \o TQ, acc)
                  ELSE SplitScanAnyComma(line, dlm, i + 1, mode, Append(current_field, char), acc)

RECURSIVE SplitScan(_, _, _, _, _, _)
SplitScan(line, dlm, i, mode, current_field, acc) ==
    IF i > Len(line) THEN Append(acc, Strip(current_field))
    ELSE LET char == line[i]
             next_char == CharAt(line, i + 1)
             next_next_char == CharAt(line, i + 2)
         IN  IF mode = "plain"
             THEN IF char = DQ
                  THEN IF next_char = DQ /\ next_next_char = DQ
                       THEN SplitScan(line, dlm, i + 3, "inTripleQuote",
                                      current_field \o TQ, acc)
                       ELSE SplitScan(line, dlm, i + 1, "inQuote",
                                      Append(current_field, char), acc)
                  ELSE IF char = BS /\ <<next_char>> = dlm
                  THEN SplitScan(line, dlm, i + 2, mode, current_field \o dlm, acc)
                  ELSE IF <<char>> = dlm
                  THEN SplitScan(line, dlm, i + 1, mode, <<>>,
                                 Append(acc, Strip(current_field)))
                  ELSE SplitScan(line, dlm, i + 1, mode, Append(current_field, char), acc)
             ELSE IF mode = "inQuote"
             THEN IF char = DQ
                  THEN IF next_char = DQ
                       THEN SplitScan(line, dlm, i + 2, mode,
                                      current_field \o <<DQ, DQ>>, acc)
                       ELSE SplitScan(line, dlm, i + 1, "plain",
                                      Append(current_field, char), acc)
                  ELSE SplitScan(line, dlm, i + 1, mode, Append(current_field, char), acc)
             ELSE IF char = DQ /\ next_char = DQ /\ next_next_char = DQ
                  THEN SplitScan(line, dlm, i + 3, "plain", current_field \o TQ, acc)
                  ELSE SplitScan(line, dlm, i + 1, mode, Append(current_field, char), acc)

split_line_by_delimiter(line, dlm) == SplitScan(line, dlm, 1, "plain", <<>>, <<>>)

(***************************************************************************)
(* Helpers on values: dicts are sequences of [k, v] pairs in insertion     *)
(* order, with unique keys.                                                *)
(***************************************************************************)
IsContainer(value) == value.t \in {"list", "map"}
Keys(pairs) == [i \in 1..Len(pairs) |-> pairs[i].k]
KeySet(pairs) == {pairs[i].k : i \in 1..Len(pairs)}
HasKey(pairs, key) == \E i \in 1..Len(pairs) : pairs[i].k = key
\* dict.get(key): None when the key is absent
MapGet(pairs, key) ==
    IF HasKey(pairs, key) THEN pairs[CHOOSE i \in 1..Len(pairs) : pairs[i].k = key].v ELSE VNull
\* d[key] = value: an existing key keeps its position
MapSet(pairs, key, value) ==
    IF HasKey(pairs, key)
    THEN [i \in 1..Len(pairs) |-> IF pairs[i].k = key THEN [k |-> key, v |-> value] ELSE pairs[i]]
    ELSE Append(pairs, [k |-> key, v |-> value])
\* d.update(other)
RECURSIVE MapUpdate(_, _)
MapUpdate(pairs, other) ==
    IF other = <<>> THEN pairs
    ELSE MapUpdate(MapSet(pairs, other[1].k, other[1].v), Tail(other))

RECURSIVE Concat(_)
Concat(seqs) == IF seqs = <<>> THEN <<>> ELSE seqs[1] \o Concat(Tail(seqs))


RECURSIVE NatToStr(_)
NatToStr(n) ==
    IF n < 10 THEN <<Digits[n + 1]>> ELSE NatToStr(n \div 10) \o <<Digits[(n % 10) + 1]>>
\* str(n) for an int
IntToStr(n) == IF n < 0 THEN <<"-">> \o NatToStr(0 - n) ELSE NatToStr(n)

(***************************************************************************)
(* utils.py: select_best_delimiter and infer_type.                         *)
(***************************************************************************)
Candidates == <<",", "|", TAB, ";">>


RECURSIVE count_in_data(_, _)
RECURSIVE CountInSeq(_, _)
CountInSeq(items, c) ==
    IF items = <<>> THEN 0 ELSE count_in_data(items[1], c) + CountInSeq(Tail(items), c)
count_in_data(obj, c) ==
    IF obj.t = "map" THEN CountInSeq([i \in 1..Len(obj.v) |-> obj.v[i].v], c)
    ELSE IF obj.t = "list" THEN CountInSeq(obj.v, c)
    ELSE IF obj.t = "str" THEN Cardinality({i \in 1..Len(obj.v) : obj.v[i] = c})
    ELSE 0

\* a minimum that gives ties to the last candidate
MinCandidateLast(obj) ==
    LET best == CHOOSE i \in 1..4 :
                    /\ \A j \in 1..4 : count_in_data(obj, Candidates[i]) <= count_in_data(obj, Candidates[j])
                    /\ \A j \in (i + 1)..4 : count_in_data(obj, Candidates[j]) > count_in_data(obj, Candidates[i])
    IN  <<Candidates[best]>>

\* min(counts, key=counts.get): the first candidate with the least count
MinCandidate(obj) ==
    LET best == CHOOSE i \in 1..4 :
                    /\ \A j \in 1..4 : count_in_data(obj, Candidates[i]) <= count_in_data(obj, Candidates[j])
                    /\ \A j \in 1..(i - 1) : count_in_data(obj, Candidates[j]) > count_in_data(obj, Candidates[i])
    IN  <<Candidates[best]>>


select_best_delimiter(data0) ==
    LET unwrap == data0.t = "map" /\ Len(data0.v) = 1 /\ data0.v[1].v.t = "list"
        arr == IF unwrap THEN data0.v[1].v ELSE data0
        is_tabular ==
            /\ Len(arr.v) > 0
            /\ arr.v[1].t = "map"
            /\ \E i \in 1..Len(arr.v[1].v) : StartsWith(arr.v[1].v[i].k, <<"c", "o", "l">>)
    IN  IF arr.t # "list" THEN <<",">>
        ELSE IF is_tabular /\ count_in_data(arr, TAB) = 0 THEN <<TAB>>
        ELSE MinCandidate(arr)

\* 0xFFFFFFFF is 65536 * 65536 - 1, beyond TLC's 32-bit integers: the bounds of
\* infer_type are decided on the half-words of the magnitude.
HalfWord == 65536
I32Max == 2147483647

\* a Python int outside the model's 32-bit integers, kept as its sign and the two
\* half-words of its magnitude hi * 65536 + lo
VWide(neg, hi, lo) == [t |-> "int", wide |-> TRUE, v |-> [neg |-> neg, hi |-> hi, lo |-> lo]]
IsWide(value) == "wide" \in DOMAIN value

\* the sign and the half-words of the magnitude of any int value
IntParts(value) ==
    IF IsWide(value) THEN value.v
    ELSE IF value.v >= 0
    THEN [neg |-> FALSE, hi |-> value.v \div HalfWord, lo |-> value.v % HalfWord]
    ELSE IF (0 - (value.v + 1)) % HalfWord = HalfWord - 1
    THEN [neg |-> TRUE, hi |-> ((0 - (value.v + 1)) \div HalfWord) + 1, lo |-> 0]
    ELSE [neg |-> TRUE, hi |-> (0 - (value.v + 1)) \div HalfWord,
          lo |-> ((0 - (value.v + 1)) % HalfWord) + 1]

\* str() of the magnitude hi * 65536 + lo, by division by ten
RECURSIVE WideNatToStr(_, _)
WideNatToStr(hi, lo) ==
    IF hi = 0 THEN NatToStr(lo)
    ELSE WideNatToStr(hi \div 10, ((hi % 10) * HalfWord + lo) \div 10)
         \o <<Digits[(((hi % 10) * HalfWord + lo) % 10) + 1]>>

\* the int branch of infer_type on the parts of the value
InferIntType(p) ==
    IF ~p.neg /\ p.hi <= HalfWord - 1 THEN <<"u", "3", "2">>
    ELSE IF p.hi < HalfWord \div 2 \/ (p.neg /\ p.hi = HalfWord \div 2 /\ p.lo = 0)
    THEN <<"i", "3", "2">>
    ELSE <<"f", "6", "4">>

\* an inference that takes the upper bound of u32 for that of i32
infer_type_u31(value) ==
    IF value.t = "null" THEN <<"n", "u", "l", "l">>
    ELSE IF value.t = "bool" THEN <<"b", "o", "o", "l">>
    ELSE IF value.t = "int"
    THEN IF ~IntParts(value).neg /\ IntParts(value).hi < HalfWord \div 2 THEN <<"u", "3", "2">>
         ELSE IF IntParts(value).neg THEN InferIntType(IntParts(value))
         ELSE <<"f", "6", "4">>
    ELSE IF value.t = "float" THEN <<"f", "6", "4">>
    ELSE IF value.t = "str" THEN <<"s", "t", "r">>
    ELSE IF value.t = "list" THEN <<"l", "i", "s", "t">>
    ELSE <<"o", "b", "j">>

infer_type(value) ==
    IF value.t = "null" THEN <<"n", "u", "l", "l">>
    ELSE IF value.t = "bool" THEN <<"b", "o", "o", "l">>
    ELSE IF value.t = "int" THEN InferIntType(IntParts(value))
    ELSE IF value.t = "float" THEN <<"f", "6", "4">>
    ELSE IF value.t = "str" THEN <<"s", "t", "r">>
    ELSE IF value.t = "list" THEN <<"l", "i", "s", "t">>
    ELSE <<"o", "b", "j">>

(***************************************************************************)
(* encoder.py.  o is the EncodeOptions record, d the resolved delimiter    *)
(* (self.delimiter), level the encoder's indent_level.                     *)
(***************************************************************************)
\* str(value) of a float kept as sign, whole part, fraction digits and exponent,
\* with the encoder's padding of an integral float to two fraction digits.
FormatFloat(f) ==
    IF "special" \in DOMAIN f
    THEN IF f.special = "nan" THEN <<"N", "a", "N">>
         ELSE IF f.special = "inf" THEN <<"I", "n", "f", "i", "n", "i", "t", "y">>
         ELSE <<"-", "I", "n", "f", "i", "n", "i", "t", "y">>
    ELSE (IF f.neg THEN <<"-">> ELSE <<>>) \o NatToStr(f.whole) \o <<".">>
         \o (IF f.frac = <<>> THEN <<"0", "0">> ELSE f.frac)
         \o (IF f.exp = 0 THEN <<>> ELSE <<"e">> \o IntToStr(f.exp))

format_primitive_value(value, d, in_single_line_object, in_tabular_context) ==
    IF value.t = "bool" THEN (IF value.v THEN <<"t", "r", "u", "e">> ELSE <<"f", "a", "l", "s", "e">>)
    ELSE IF value.t = "int"
    THEN IF IsWide(value)
         THEN (IF value.v.neg THEN <<"-">> ELSE <<>>) \o WideNatToStr(value.v.hi, value.v.lo)
         ELSE IntToStr(value.v)
    ELSE IF value.t = "float" THEN FormatFloat(value.v)
    ELSE IF value.t = "str"
    THEN IF needs_quoting(value.v, d, in_single_line_object, in_tabular_context)
         THEN quote_string(value.v)
         ELSE value.v
    ELSE <<"n", "u", "l", "l">>

Indent(level, o) == [i \in 1..(level * o.indent) |-> " "]

DelimiterSep(d) ==
    IF d = <<",">> THEN <<",", " ">>
    ELSE IF d = <<TAB>> THEN <<TAB>>
    ELSE <<" ">> \o d \o <<" ">>

encode_primitive(value, key, level, o, d) ==
    << Indent(level, o) \o key \o <<":", " ">> \o format_primitive_value(value, d, FALSE, FALSE) >>

encode_primitive_array(arr, key, level, o, d) ==
    LET formatted_values == [i \in 1..Len(arr) |-> format_primitive_value(arr[i], d, FALSE, FALSE)]
        joined == Join(formatted_values, DelimiterSep(d))
        header == Indent(level, o) \o key \o <<"[">> \o NatToStr(Len(arr)) \o <<"]", ":">>
    IN  IF Len(joined) < o.single_line_threshold
        THEN << header \o <<" ">> \o joined >>
        ELSE << header, Indent(level, o) \o <<" ", " ">> \o joined >>

\* the column definitions of a header: the name, with ":type" when include_types
\* is set and the type is neither obj nor list
ColDefs(pairs, o) ==
    [i \in 1..Len(pairs) |->
        IF o.include_types /\ ~IsContainer(pairs[i].v)
        THEN pairs[i].k \o <<":">> \o infer_type(pairs[i].v)
        ELSE pairs[i].k]

encode_tabular_array(arr, key, level, o, d) ==
    LET columns == Keys(arr[1].v)
        header == Indent(level, o) \o key \o <<"[">> \o NatToStr(Len(arr)) \o <<"]", "{">>
                  \o Join(ColDefs(arr[1].v, o), <<",">>) \o <<"}", ":">>
        row_of(item) == Join([j \in 1..Len(columns) |->
                              format_primitive_value(MapGet(item.v, columns[j]), d, FALSE, TRUE)],
                          DelimiterSep(d))
    IN  <<header>> \o [i \in 1..Len(arr) |-> Indent(level, o) \o <<" ", " ">> \o row_of(arr[i])]

is_uniform_object_array_keys_only(arr) ==
    /\ arr # <<>>
    /\ \A i \in 1..Len(arr) : arr[i].t = "map"
    /\ \A i \in 1..Len(arr) : KeySet(arr[i].v) = KeySet(arr[1].v)

is_uniform_object_array(arr) ==
    /\ arr # <<>>
    /\ \A i \in 1..Len(arr) : arr[i].t = "map"
    /\ \A i \in 1..Len(arr) : KeySet(arr[i].v) = KeySet(arr[1].v)
    /\ \A i \in 1..Len(arr) : \A j \in 1..Len(arr[i].v) : ~IsContainer(arr[i].v[j].v)

RECURSIVE InlineLength(_, _)
InlineLength(pairs, d) ==
    IF pairs = <<>> THEN 0
    ELSE Len(pairs[1].k) + 2
         + (IF IsContainer(pairs[1].v) THEN 4
            ELSE Len(format_primitive_value(pairs[1].v, d, TRUE, FALSE)))
         + 1 + InlineLength(Tail(pairs), d)

\* a test that lets a string with a newline stay on the line
should_use_multiline_containers_only(pairs, o, d) ==
    \/ \E i \in 1..Len(pairs) : IsContainer(pairs[i].v)
    \/ InlineLength(pairs, d) > o.single_line_threshold

should_use_multiline(pairs, o, d) ==
    \/ \E i \in 1..Len(pairs) : IsContainer(pairs[i].v)
    \/ \E i \in 1..Len(pairs) : pairs[i].v.t = "str" /\ HasChar(pairs[i].v.v, NL)
    \/ InlineLength(pairs, d) > o.single_line_threshold


RECURSIVE encode_value(_, _, _, _, _)
RECURSIVE encode_array(_, _, _, _, _)
RECURSIVE encode_mixed_array(_, _, _, _, _)
RECURSIVE encode_object(_, _, _, _, _)

encode_value(value, key, level, o, d) ==
    IF value.t = "map" THEN encode_object(value.v, key, level, o, d)
    ELSE IF value.t = "list" THEN encode_array(value.v, key, level, o, d)
    ELSE encode_primitive(value, key, level, o, d)

encode_array(arr, key, level, o, d) ==
    IF arr = <<>> THEN << Indent(level, o) \o key \o <<"[", "0", "]", ":">> >>
    ELSE IF is_uniform_object_array(arr) THEN encode_tabular_array(arr, key, level, o, d)
    ELSE IF \A i \in 1..Len(arr) : ~IsContainer(arr[i])
    THEN encode_primitive_array(arr, key, level, o, d)
    ELSE encode_mixed_array(arr, key, level, o, d)

encode_mixed_array(arr, key, level, o, d) ==
    << Indent(level, o) \o key \o <<"[">> \o NatToStr(Len(arr)) \o <<"]", ":">> >>
    \o Concat([i \in 1..Len(arr) |-> encode_value(arr[i], <<"[">> \o NatToStr(i - 1) \o <<"]">>, level + 1, o, d)])

encode_object(obj, key, level, o, d) ==
    LET header == Indent(level, o) \o key \o <<"{">> \o Join(ColDefs(obj, o), <<",">>) \o <<"}", ":">>
        pairs == [i \in 1..Len(obj) |->
                     obj[i].k \o <<":", " ">> \o format_primitive_value(obj[i].v, d, TRUE, FALSE)]
    IN  IF obj = <<>> THEN << Indent(level, o) \o key \o <<"{", "}", ":">> >>
        ELSE IF should_use_multiline(obj, o, d)
        THEN <<header>> \o Concat([i \in 1..Len(obj) |-> encode_value(obj[i].v, obj[i].k, level + 1, o, d)])
        ELSE << header \o <<" ">> \o Join(pairs, <<" ">>) >>

RootKey == <<"r", "o", "o", "t">>
VersionTag == <<"#", "v", "e", "r", "s", "i", "o", "n">>
DelimiterTag == <<"#", "d", "e", "l", "i", "m", "i", "t", "e", "r">>

\* self.options.delimiter or select_best_delimiter(data)
ResolveDelimiter(data0, o) == IF o.delimiter # <<>> THEN o.delimiter ELSE select_best_delimiter(data0)

\* an encoder that writes the "#delimiter" line for the comma as well
EncodeLinesAlwaysDelimiter(data0, o) ==
    LET d == ResolveDelimiter(data0, o)
        root_lines ==
            IF data0.t = "map" /\ Len(data0.v) = 1 /\ IsContainer(data0.v[1].v)
            THEN encode_value(data0.v[1].v, data0.v[1].k, 0, o, d)
            ELSE encode_value(data0, RootKey, 0, o, d)
    IN  <<VersionTag \o <<" ">> \o o.version, DelimiterTag \o <<" ">> \o d>> \o root_lines

\* the lines of encode(data), before the final "\n".join
EncodeLines(data0, o) ==
    LET d == ResolveDelimiter(data0, o)
        version_line == VersionTag \o <<" ">> \o o.version
        header_lines == IF d # <<",">> THEN <<version_line, DelimiterTag \o <<" ">> \o d>>
                        ELSE <<version_line>>
        root_lines ==
            IF data0.t = "map" /\ Len(data0.v) = 1 /\ IsContainer(data0.v[1].v)
            THEN encode_value(data0.v[1].v, data0.v[1].k, 0, o, d)
            ELSE encode_value(data0, RootKey, 0, o, d)
    IN  header_lines \o root_lines

encode(data0, o) == Join(EncodeLines(data0, o), <<NL>>)

\* EncodeOptions(): the defaults of the dataclass
DefaultEncodeOptions ==
    [delimiter |-> <<",">>, include_types |-> FALSE, indent |-> 2,
     version |-> <<"1", ".", "0">>, single_line_threshold |-> 80]

(***************************************************************************)
(* utils.py: parse_key_value_pairs, the scanner of an inline map           *)
(* "k: v k: v".  Positions are 1-based: p is Python's i + 1.  The loop's   *)
(* state is (i, result); an iteration that reaches "continue" with both    *)
(* unchanged repeats for ever, which the model reports as hung.            *)
(***************************************************************************)
RECURSIVE SkipSpace(_, _)
SkipSpace(line, p) == IF p <= Len(line) /\ IsSpace(line[p]) THEN SkipSpace(line, p + 1) ELSE p

RECURSIVE SkipWord(_, _)
SkipWord(line, p) == IF p <= Len(line) /\ IsWord(line[p]) THEN SkipWord(line, p + 1) ELSE p

\* the end of a '"""' value that opens at p - 3: after the first '"""' not preceded by a backslash
RECURSIVE KvTripleEnd(_, _)
KvTripleEnd(line, p) ==
    IF p > Len(line) THEN p
    ELSE IF StartsAt(line, p, TQ) /\ line[p - 1] # BS THEN p + 3
    ELSE KvTripleEnd(line, p + 1)

\* the end of a '"' value: after the first quote that is not doubled
RECURSIVE KvQuoteEnd(_, _)
KvQuoteEnd(line, p) ==
    IF p > Len(line) THEN p
    ELSE IF line[p] = DQ
    THEN IF p + 1 <= Len(line) /\ line[p + 1] = DQ THEN KvQuoteEnd(line, p + 2) ELSE p + 1
    ELSE KvQuoteEnd(line, p + 1)

\* the end of an unquoted value: the whitespace before the next "identifier:"
RECURSIVE KvPlainEnd(_, _)
KvPlainEnd(line, p) ==
    IF p > Len(line) THEN p
    ELSE IF IsSpace(line[p])
    THEN LET j == SkipSpace(line, p + 1)
             k == SkipSpace(line, SkipWord(line, j))
         IN  IF j <= Len(line) /\ k <= Len(line) /\ line[k] = ":" /\ k > j
             THEN p
             ELSE KvPlainEnd(line, p + 1)
    ELSE KvPlainEnd(line, p + 1)

RECURSIVE KvLoop(_, _, _)
KvLoop(line, p, res) ==
    LET key_start == SkipSpace(line, p)
        key_end == SkipWord(line, key_start)
        key == SubSeq(line, key_start, key_end - 1)
        colon == SkipSpace(line, key_end)
        value_start == SkipSpace(line, colon + 1)
        quoted_end == IF StartsAt(line, value_start, TQ)
                      THEN KvTripleEnd(line, value_start + 3)
                      ELSE KvQuoteEnd(line, value_start + 1)
        plain_end == KvPlainEnd(line, value_start)
    IN  IF key_start > Len(line) THEN [hung |-> FALSE, result |-> res]
        ELSE IF ~(colon <= Len(line) /\ line[colon] = ":")
        THEN IF colon = p
             THEN [hung |-> TRUE, result |-> res]
             ELSE KvLoop(line, colon, res)
        ELSE IF value_start > Len(line) THEN [hung |-> FALSE, result |-> res]
        ELSE IF line[value_start] = DQ
        THEN KvLoop(line, quoted_end,
                    MapSet(res, key, parse_primitive_value(SubSeq(line, value_start, quoted_end - 1))))
        ELSE KvLoop(line, plain_end,
                    MapSet(res, key, parse_primitive_value(SubSeq(line, value_start, plain_end - 1))))

parse_key_value_pairs(line) == KvLoop(line, 1, <<>>)

(***************************************************************************)
(* decoder.py: the two line grammars.                                      *)
(***************************************************************************)
NoMatch == [ok |-> FALSE]

\* (\w+|\[\d+\]) at the start of the line: the position after the key, 0 if none
KeyEnd(line) ==
    IF line = <<>> THEN 0
    ELSE IF IsWord(line[1]) THEN SkipWord(line, 1)
    ELSE IF line[1] = "[" /\ SkipDigits(line, 2) > 2
            /\ SkipDigits(line, 2) <= Len(line) /\ line[SkipDigits(line, 2)] = "]"
    THEN SkipDigits(line, 2) + 1
    ELSE 0

\* the first position >= p holding c, or Len + 1
RECURSIVE FindChar(_, _, _)
FindChar(line, p, c) ==
    IF p > Len(line) \/ line[p] = c THEN p ELSE FindChar(line, p + 1, c)

\* str.split(sep) for a one-character sep
RECURSIVE SplitOn(_, _)
SplitOn(str, c) ==
    LET q == FindChar(str, 1, c)
    IN  IF q > Len(str) THEN <<str>> ELSE <<Take(str, q - 1)>> \o SplitOn(Drop(str, q), c)

\* a column part whose hint stays in the column name
ColumnPartKeepsHint(part0) ==
    IF Strip(part0) = <<>> THEN [columns |-> <<>>, hints |-> <<>>]
    ELSE [columns |-> <<Strip(part0)>>, hints |-> <<>>]

\* one "col" or "col:type" part of a column list: the name and hint it adds
ColumnPart(part0) ==
    LET part == Strip(part0)
        q == FindChar(part, 1, ":")
        name == Strip(Take(part, q - 1))
        hint == Strip(Drop(part, q))
    IN  IF part = <<>> THEN [columns |-> <<>>, hints |-> <<>>]
        ELSE IF q <= Len(part)
        THEN IF name = <<>> THEN [columns |-> <<>>, hints |-> <<>>]
             ELSE [columns |-> <<name>>,
                   hints |-> IF hint # <<>> THEN <<[k |-> name, v |-> hint]>> ELSE <<>>]
        ELSE [columns |-> <<part>>, hints |-> <<>>]

RECURSIVE ParseColumns(_, _, _)
ParseColumns(col_parts, columns, type_hints) ==
    IF col_parts = <<>> THEN [columns |-> columns, type_hints |-> type_hints]
    ELSE LET c == ColumnPart(col_parts[1])
         IN  ParseColumns(Tail(col_parts), columns \o c.columns, MapUpdate(type_hints, c.hints))

\* a header match that is kept without an array size or a column list
parse_header_any_match(line) ==
    LET k == KeyEnd(line)
        szEnd == SkipDigits(line, k + 1)
        hasSize == /\ k <= Len(line) /\ line[k] = "["
                   /\ szEnd > k + 1 /\ szEnd <= Len(line) /\ line[szEnd] = "]"
        b == IF hasSize THEN szEnd + 1 ELSE k
        close == FindChar(line, b + 1, "}")
        hasCols == b <= Len(line) /\ line[b] = "{" /\ close <= Len(line)
        c == IF hasCols THEN close + 1 ELSE b
        columns_str == IF hasCols THEN SubSeq(line, b + 1, close - 1) ELSE <<>>
        cols == ParseColumns(SplitOn(columns_str, ","), <<>>, <<>>)
    IN  IF k = 0 THEN NoMatch
        ELSE IF ~(c <= Len(line) /\ line[c] = ":") THEN NoMatch
        ELSE [ok |-> TRUE,
              key |-> Take(line, k - 1),
              is_array |-> hasSize,
              array_size |-> IF hasSize THEN DigitsToNat(SubSeq(line, k + 1, szEnd - 1), 0) ELSE 0,
              columns |-> IF columns_str # <<>> THEN cols.columns ELSE <<>>,
              type_hints |-> IF columns_str # <<>> THEN cols.type_hints ELSE <<>>,
              rest |-> Drop(line, SkipSpace(line, c + 1) - 1)]

\* ^(\w+|\[\d+\])(?:\[(\d+)\])?(?:\{([^}]*)\})?:\s*(.*)$ and what follows the match
parse_header(line) ==
    LET k == KeyEnd(line)
        szEnd == SkipDigits(line, k + 1)
        hasSize == /\ k <= Len(line) /\ line[k] = "["
                   /\ szEnd > k + 1 /\ szEnd <= Len(line) /\ line[szEnd] = "]"
        b == IF hasSize THEN szEnd + 1 ELSE k
        close == FindChar(line, b + 1, "}")
        hasCols == b <= Len(line) /\ line[b] = "{" /\ close <= Len(line)
        c == IF hasCols THEN close + 1 ELSE b
        columns_str == IF hasCols THEN SubSeq(line, b + 1, close - 1) ELSE <<>>
        cols == ParseColumns(SplitOn(columns_str, ","), <<>>, <<>>)
    IN  IF k = 0 THEN NoMatch
        ELSE IF ~(c <= Len(line) /\ line[c] = ":") THEN NoMatch
        ELSE IF ~hasSize /\ ~hasCols THEN NoMatch
        ELSE [ok |-> TRUE,
              key |-> Take(line, k - 1),
              is_array |-> hasSize,
              array_size |-> IF hasSize THEN DigitsToNat(SubSeq(line, k + 1, szEnd - 1), 0) ELSE 0,
              columns |-> IF columns_str # <<>> THEN cols.columns ELSE <<>>,
              type_hints |-> IF columns_str # <<>> THEN cols.type_hints ELSE <<>>,
              rest |-> Drop(line, SkipSpace(line, c + 1) - 1)]

\* ^(\w+|\[\d+\]):\s*(.*)$
parse_key_value(line) ==
    LET k == KeyEnd(line)
    IN  IF k = 0 \/ ~(k <= Len(line) /\ line[k] = ":") THEN NoMatch
        ELSE [ok |-> TRUE, key |-> Take(line, k - 1), value |-> Drop(line, SkipSpace(line, k + 1) - 1)]

\* has_unescaped_triple_quote(s), scanning from position p
RECURSIVE HasUnescapedTripleQuoteFrom(_, _)
HasUnescapedTripleQuoteFrom(str, p) ==
    IF ~(\E q \in p..Len(str) : StartsAt(str, q, TQ)) THEN FALSE
    ELSE LET idx == CHOOSE q \in p..Len(str) :
                        StartsAt(str, q, TQ) /\ \A r \in p..(q - 1) : ~StartsAt(str, r, TQ)
         IN  IF idx = 1 \/ str[idx - 1] # BS THEN TRUE
             ELSE HasUnescapedTripleQuoteFrom(str, idx + 3)

has_unescaped_triple_quote(str) == HasUnescapedTripleQuoteFrom(str, 1)

IndentOf(line) == Len(line) - Len(LStrip(line))
IsBlank(line) == Strip(line) = <<>>
IsIndexKey(key) == StartsWith(key, <<"[">>) /\ EndsWith(key, <<"]">>)

(***************************************************************************)
(* decoder.py: _parse_lines and _parse_block.  The Python code passes the  *)
(* slice lines[i:], which always runs to the end of the document; here L   *)
(* is the whole list of data lines and i the 1-based index of the slice's  *)
(* first line.  self is the decoder: [delimiter, strict].  Each returns     *)
(* [result, consumed, hung, error]; None is VNull, error is the exception  *)
(* that left the call, "" if none.                                         *)
(***************************************************************************)
Parsed(res, consumed) == [result |-> res, consumed |-> consumed, hung |-> FALSE, error |-> ""]
Hung == [result |-> VNull, consumed |-> 0, hung |-> TRUE, error |-> ""]
Raised(e) == [result |-> VNull, consumed |-> 0, hung |-> FALSE, error |-> e]

\* coerce_typed_value(raw, hint, strict=True), which decoder.py imports from
\* utils.py and utils.py does not define: the token is parsed and has to be of
\* the type the hint names, or the decode fails.
coerce_typed_value(raw, hint) ==
    LET v == parse_primitive_value(raw)
    IN  [ok |-> CASE hint = <<"u", "3", "2">> -> v.t = "int" /\ v.v >= 0
                  [] hint = <<"i", "3", "2">> -> v.t = "int"
                  [] hint = <<"f", "6", "4">> -> v.t \in {"int", "float"}
                  [] hint = <<"b", "o", "o", "l">> -> v.t = "bool"
                  [] hint = <<"n", "u", "l", "l">> -> v.t = "null"
                  [] hint = <<"s", "t", "r">> -> v.t = "str"
                  [] OTHER -> TRUE,
         value |-> v]

RECURSIVE AccumulateLines(_, _, _)
\* an accumulation that counts the closing line twice
AccumulateLinesRecount(L, j, combined) ==
    IF j > Len(L) THEN [combined |-> combined, next |-> j]
    ELSE IF has_unescaped_triple_quote(L[j])
    THEN [combined |-> combined \o <<NL>> \o L[j], next |-> j + 2]
    ELSE AccumulateLines(L, j + 1, combined \o <<NL>> \o L[j])

\* the loop of _parse_lines that accumulates a multi-line triple-quoted value
AccumulateLines(L, j, combined) ==
    IF j > Len(L) THEN [combined |-> combined, next |-> j]
    ELSE IF has_unescaped_triple_quote(L[j])
    THEN [combined |-> combined \o <<NL>> \o L[j], next |-> j + 1]
    ELSE AccumulateLines(L, j + 1, combined \o <<NL>> \o L[j])

\* a row loop that gives a column without a field the value null
RECURSIVE RowObjectPadsNull(_, _, _, _, _)
RowObjectPadsNull(h, self, row_values, j, obj) ==
    IF j > Len(h.columns) THEN [obj |-> obj, error |-> ""]
    ELSE IF j > Len(row_values)
    THEN RowObjectPadsNull(h, self, row_values, j + 1, MapSet(obj, h.columns[j], VNull))
    ELSE IF HasKey(h.type_hints, h.columns[j]) /\ self.strict
    THEN IF coerce_typed_value(row_values[j], MapGet(h.type_hints, h.columns[j])).ok
         THEN RowObjectPadsNull(h, self, row_values, j + 1,
                                MapSet(obj, h.columns[j],
                                       coerce_typed_value(row_values[j], MapGet(h.type_hints, h.columns[j])).value))
         ELSE [obj |-> obj, error |-> "ColumnArityMismatch"]
    ELSE RowObjectPadsNull(h, self, row_values, j + 1,
                           MapSet(obj, h.columns[j], parse_primitive_value(row_values[j])))

\* one row of a tabular array: the columns paired with the fields by position;
\* a hinted column is coerced in strict mode; [obj, error]
RECURSIVE RowObject(_, _, _, _, _)
RowObject(h, self, row_values, j, obj) ==
    IF j > Len(h.columns) THEN [obj |-> obj, error |-> ""]
    ELSE IF j > Len(row_values) THEN RowObject(h, self, row_values, j + 1, obj)
    ELSE IF HasKey(h.type_hints, h.columns[j]) /\ self.strict
    THEN IF coerce_typed_value(row_values[j], MapGet(h.type_hints, h.columns[j])).ok
         THEN RowObject(h, self, row_values, j + 1,
                        MapSet(obj, h.columns[j],
                               coerce_typed_value(row_values[j], MapGet(h.type_hints, h.columns[j])).value))
         ELSE [obj |-> obj, error |-> "ColumnArityMismatch"]
    ELSE RowObject(h, self, row_values, j + 1,
                   MapSet(obj, h.columns[j], parse_primitive_value(row_values[j])))

RECURSIVE TabularRows(_, _, _, _, _, _)

\* one row of the loop of a tabular array, then the rest of the loop
TabularRow(L, j, first_line_indent, h, self, acc, row_obj) ==
    IF row_obj.error # "" THEN Raised(row_obj.error)
    ELSE TabularRows(L, j + 1, first_line_indent, h, self, Append(acc, VMap(row_obj.obj)))

TabularRows(L, j, first_line_indent, h, self, acc) ==
    IF j > Len(L) THEN Parsed(VList(acc), j)
    ELSE IF ~IsBlank(L[j]) /\ IndentOf(L[j]) <= first_line_indent THEN Parsed(VList(acc), j)
    ELSE IF ~IsBlank(L[j])
    THEN TabularRow(L, j, first_line_indent, h, self, acc,
                    RowObject(h, self, split_line_by_delimiter(Strip(L[j]), self.delimiter), 1, <<>>))
    ELSE TabularRows(L, j + 1, first_line_indent, h, self, acc)

\* a mixed array's unwrapping of an item {"[i]": value}
UnwrapIndexed(sub_result) ==
    IF sub_result.t = "map" /\ Len(sub_result.v) = 1 /\ IsIndexKey(sub_result.v[1].k)
    THEN sub_result.v[1].v
    ELSE sub_result

RECURSIVE ParseLines(_, _, _)
RECURSIVE ParseBlock(_, _, _, _)
RECURSIVE MixedItems(_, _, _, _, _)
RECURSIVE ObjectItems(_, _, _, _, _)

\* _parse_lines after a header match: an index key returns the block's value
\* bare, any other key wraps it in {key: value}
HeaderResult(h, block) ==
    IF block.hung \/ block.error # "" THEN block
    ELSE IF IsIndexKey(h.key) THEN block
    ELSE Parsed(VMap(<<[k |-> h.key, v |-> block.result]>>), block.consumed)

\* _parse_lines after a key-value match on line i
MultiLineResult(key, multi, i) ==
    Parsed(VMap(<<[k |-> key, v |-> parse_primitive_value(multi.combined)]>>), multi.next - i)

KeyValueResult(L, i, kv_match, stripped_value) ==
    IF StartsWith(stripped_value, TQ) /\ ~EndsWith(stripped_value, TQ)
    THEN MultiLineResult(kv_match.key, AccumulateLines(L, i + 1, stripped_value), i)
    ELSE Parsed(VMap(<<[k |-> kv_match.key, v |-> parse_primitive_value(kv_match.value)]>>), 1)

LineResult(L, i, self, header_match, kv_match) ==
    IF header_match.ok THEN HeaderResult(header_match, ParseBlock(L, i, header_match, self))
    ELSE IF kv_match.ok THEN KeyValueResult(L, i, kv_match, Strip(kv_match.value))
    ELSE Parsed(VNull, 1)

\* _parse_lines(lines[i:], indent_level): the value and the number of lines consumed
ParseLines(L, i, self) ==
    LineResult(L, i, self, parse_header(Strip(L[i])), parse_key_value(Strip(L[i])))

\* a loop's outcome seen from _parse_block: lines_consumed counts from line i
BlockResult(loop, i) ==
    IF loop.hung \/ loop.error # "" THEN loop ELSE Parsed(loop.result, loop.consumed - i)

InlineObjectResult(obj) ==
    IF obj.hung THEN Hung ELSE Parsed(VMap(obj.result), 1)

InlineArrayResult(values) ==
    Parsed(VList([j \in 1..Len(values) |-> parse_primitive_value(values[j])]), 1)

\* _parse_block(lines[i:], header_info); parse_key_value_pairs as utils.py
\* defines it takes the line only
ParseBlock(L, i, h, self) ==
    IF h.rest # <<>>
    THEN IF h.is_array
         THEN InlineArrayResult(split_line_by_delimiter(h.rest, self.delimiter))
         ELSE InlineObjectResult(parse_key_value_pairs(h.rest))
    ELSE IF h.is_array
    THEN IF h.columns # <<>>
         THEN BlockResult(TabularRows(L, i + 1, IndentOf(L[i]), h, self, <<>>), i)
         ELSE BlockResult(MixedItems(L, i + 1, IndentOf(L[i]), self, <<>>), i)
    ELSE BlockResult(ObjectItems(L, i + 1, IndentOf(L[i]), self, <<>>), i)

\* one item of a mixed array, then the rest of the loop
MixedItem(L, j, first_line_indent, self, acc, sub) ==
    IF sub.hung \/ sub.error # "" THEN sub
    ELSE MixedItems(L, j + sub.consumed, first_line_indent, self,
                    Append(acc, UnwrapIndexed(sub.result)))

\* the loop of a mixed array; "consumed" holds the index of the next line
MixedItems(L, j, first_line_indent, self, acc) ==
    IF j > Len(L) THEN Parsed(VList(acc), j)
    ELSE IF ~IsBlank(L[j]) /\ IndentOf(L[j]) <= first_line_indent THEN Parsed(VList(acc), j)
    ELSE IF ~IsBlank(L[j])
    THEN MixedItem(L, j, first_line_indent, self, acc, ParseLines(L, j, self))
    ELSE MixedItems(L, j + 1, first_line_indent, self, acc)

\* one child of a map block, then the rest of the loop
ObjectItem(L, j, first_line_indent, self, acc, sub) ==
    IF sub.hung \/ sub.error # "" THEN sub
    ELSE ObjectItems(L, j + sub.consumed, first_line_indent, self,
                     IF sub.result.t = "map" THEN MapUpdate(acc, sub.result.v) ELSE acc)

\* a map block that a line at the header's own indentation does not end
ObjectItemsStopBelow(L, j, first_line_indent, self, acc) ==
    IF j > Len(L) THEN Parsed(VMap(acc), j)
    ELSE IF ~IsBlank(L[j]) /\ IndentOf(L[j]) < first_line_indent THEN Parsed(VMap(acc), j)
    ELSE IF ~IsBlank(L[j])
    THEN ObjectItem(L, j, first_line_indent, self, acc, ParseLines(L, j, self))
    ELSE ObjectItems(L, j + 1, first_line_indent, self, acc)

\* the loop of a map block
ObjectItems(L, j, first_line_indent, self, acc) ==
    IF j > Len(L) THEN Parsed(VMap(acc), j)
    ELSE IF ~IsBlank(L[j]) /\ IndentOf(L[j]) <= first_line_indent THEN Parsed(VMap(acc), j)
    ELSE IF ~IsBlank(L[j])
    THEN ObjectItem(L, j, first_line_indent, self, acc, ParseLines(L, j, self))
    ELSE ObjectItems(L, j + 1, first_line_indent, self, acc)

(***************************************************************************)
(* decoder.py: decode and _parse_headers, line by line.                    *)
(***************************************************************************)
\* str.splitlines(): breaks at "\n", "\r" and "\r\n"; no empty last line
FirstBreak(txt, p) ==
    CHOOSE e \in p..Len(txt) : txt[e] \in {NL, CR} /\ \A j \in p..(e - 1) : txt[j] \notin {NL, CR}

RECURSIVE SplitLinesFrom(_, _)
SplitAtBreak(txt, p, e) == <<SubSeq(txt, p, e - 1)>> \o SplitLinesFrom(txt, IF txt[e] = CR /\ e + 1 <= Len(txt) /\ txt[e + 1] = NL THEN e + 2 ELSE e + 1)

SplitLinesFrom(txt, p) ==
    IF p > Len(txt) THEN <<>>
    ELSE IF \A e \in p..Len(txt) : txt[e] \notin {NL, CR} THEN <<SubSeq(txt, p, Len(txt))>>
    ELSE SplitAtBreak(txt, p, FirstBreak(txt, p))

splitlines(txt) == SplitLinesFrom(txt, 1)

\* str.split(): the runs of non-whitespace
RECURSIVE SplitWs(_)
SplitWs(str) ==
    LET a == SkipSpace(str, 1)
        b == CHOOSE q \in a..(Len(str) + 1) :
                 /\ q > Len(str) \/ IsSpace(str[q])
                 /\ \A r \in a..(q - 1) : ~IsSpace(str[r])
    IN  IF a > Len(str) THEN <<>> ELSE <<SubSeq(str, a, b - 1)>> \o SplitWs(Drop(str, b - 1))

RECURSIVE RStripChar(_, _)
RStripChar(str, c) ==
    IF str # <<>> /\ str[Len(str)] = c THEN RStripChar(Take(str, Len(str) - 1), c) ELSE str

SupportedVersion == <<"1", ".", "0">>

\* a header loop that lets every "#version" line pass
HeaderLineEffectAnyVersion(original_line, delimiter0) ==
    LET line == Strip(original_line)
    IN  IF line = <<>> \/ StartsWith(line, VersionTag) \/ StartsWith(line, DelimiterTag)
           \/ StartsWith(line, <<"@">>)
        THEN [kind |-> "skip", delimiter |-> delimiter0]
        ELSE [kind |-> "break", delimiter |-> delimiter0]

\* a header loop that reads the delimiter from the stripped line
HeaderLineEffectStrippedValue(original_line, delimiter0) ==
    LET line == Strip(original_line)
        parts0 == SplitWs(line)
        val_part == Drop(line, 10)
        delim0 == Strip(val_part)
    IN  IF line = <<>> THEN [kind |-> "skip", delimiter |-> delimiter0]
        ELSE IF StartsWith(line, VersionTag)
        THEN IF Len(parts0) # 2 \/ parts0[1] # VersionTag \/ parts0[2] # SupportedVersion
             THEN [kind |-> "raise", delimiter |-> delimiter0]
             ELSE [kind |-> "skip", delimiter |-> delimiter0]
        ELSE IF StartsWith(line, DelimiterTag)
        THEN [kind |-> "skip",
              delimiter |-> IF delim0 = <<>>
                            THEN (IF HasChar(val_part, TAB) THEN <<TAB>> ELSE delimiter0)
                            ELSE IF delim0 = <<BS, "t">> THEN <<TAB>>
                            ELSE delim0]
        ELSE IF StartsWith(line, <<"@">>) THEN [kind |-> "skip", delimiter |-> delimiter0]
        ELSE [kind |-> "break", delimiter |-> delimiter0]

\* what _parse_headers does with one line: "skip" (the loop goes on), "raise",
\* or "break" (the first data line); and the delimiter it leaves
HeaderLineEffect(original_line, delimiter0) ==
    LET line == Strip(original_line)
        parts0 == SplitWs(line)
        val_part == RStripChar(RStripChar(Drop(LStrip(original_line), 10), NL), CR)
        delim0 == Strip(val_part)
    IN  IF line = <<>> THEN [kind |-> "skip", delimiter |-> delimiter0]
        ELSE IF StartsWith(line, VersionTag)
        THEN IF Len(parts0) # 2 \/ parts0[1] # VersionTag \/ parts0[2] # SupportedVersion
             THEN [kind |-> "raise", delimiter |-> delimiter0]
             ELSE [kind |-> "skip", delimiter |-> delimiter0]
        ELSE IF StartsWith(line, DelimiterTag)
        THEN [kind |-> "skip",
              delimiter |-> IF delim0 = <<>>
                            THEN (IF HasChar(val_part, TAB) THEN <<TAB>> ELSE delimiter0)
                            ELSE IF delim0 = <<BS, "t">> THEN <<TAB>>
                            ELSE delim0]
        ELSE IF StartsWith(line, <<"@">>) THEN [kind |-> "skip", delimiter |-> delimiter0]
        ELSE [kind |-> "break", delimiter |-> delimiter0]

\* an unwrap that returns the sole value of every single-key map
UnwrapAnySingleKey(res) ==
    IF res.t = "map" /\ Len(res.v) = 1 THEN res.v[1].v ELSE res

\* the final unwrap of decode
Unwrap(res) ==
    IF res.t = "map" /\ Len(res.v) = 1 /\ res.v[1].k = RootKey THEN res.v[1].v ELSE res

\* "not result": an empty dict, list or string, zero, False
IsFalsy(res) ==
    \/ res.t \in {"map", "list", "str"} /\ res.v = <<>>
    \/ res.t = "int" /\ res.v = 0
    \/ res.t = "float" /\ res.v.whole = 0 /\ res.v.frac = <<>>
    \/ res.t = "bool" /\ ~res.v

(***************************************************************************)
(* Quote round trip: a caller builds a string, quotes it, unquotes it.     *)
(***************************************************************************)

InitQuote ==
    /\ pc = "input"
    /\ s = <<>>
    /\ quoted = <<>>
    /\ unquoted = <<>>
    /\ fields = <<>>
    /\ delim = <<",">>
    /\ tokens = <<>>
    /\ row = <<>>
    /\ parts = <<>>
    /\ doc = <<>>
    /\ data = VNull
    /\ options = DefaultEncodeOptions
    /\ text = <<>>
    /\ lines = <<>>
    /\ delimiter = <<",">>
    /\ start_idx = 0
    /\ top_i = 0
    /\ result = VMap(<<>>)
    /\ ret = VNull
    /\ error = ""
    /\ strict = FALSE

TypeChar ==
    /\ pc = "input"
    /\ Len(s) < MaxStrLen
    /\ \E c \in {"a", DQ, BS, NL, ","} : s' = Append(s, c)
    /\ UNCHANGED <<pc, quoted, unquoted, splitVars, encodeVars, decodeVars>>

Quote ==
    /\ pc = "input"
    /\ quoted' = quote_string(s)
    /\ pc' = "quoted"
    /\ UNCHANGED <<s, unquoted, splitVars, encodeVars, decodeVars>>

Unquote ==
    /\ pc = "quoted"
    /\ unquoted' = unquote_string(quoted)
    /\ pc' = "unquoted"
    /\ UNCHANGED <<s, quoted, splitVars, encodeVars, decodeVars>>

NextQuote == TypeChar \/ Quote \/ Unquote

SpecQuote == InitQuote /\ [][NextQuote]_vars

\* C2: unquote_string(quote_string(s)) = s for every string s.
C2_QuoteRoundTrip == pc = "unquoted" => unquoted = s

(***************************************************************************)
(* Splitting: a caller builds a list of fields, joins them with the        *)
(* delimiter (as they are, or each passed through quote_string) and splits *)
(* the line again.                                                         *)
(***************************************************************************)

RECURSIVE RowCost(_)
RowCost(fs) == IF fs = <<>> THEN 0 ELSE 1 + Len(fs[1]) + RowCost(Tail(fs))

InitSplit ==
    /\ pc = "input"
    /\ s = <<>>
    /\ quoted = <<>>
    /\ unquoted = <<>>
    /\ fields = <<>>
    /\ delim \in {<<",">>, <<"|">>, <<";">>, <<TAB>>}
    /\ tokens = <<>>
    /\ row = <<>>
    /\ parts = <<>>
    /\ doc = <<>>
    /\ data = VNull
    /\ options = DefaultEncodeOptions
    /\ text = <<>>
    /\ lines = <<>>
    /\ delimiter = <<",">>
    /\ start_idx = 0
    /\ top_i = 0
    /\ result = VMap(<<>>)
    /\ ret = VNull
    /\ error = ""
    /\ strict = FALSE

AddField ==
    /\ pc = "input"
    /\ RowCost(fields) < MaxRowChars
    /\ fields' = Append(fields, <<>>)
    /\ UNCHANGED <<pc, quoteVars, delim, tokens, row, parts, encodeVars, decodeVars>>

TypeFieldChar ==
    /\ pc = "input"
    /\ fields # <<>>
    /\ RowCost(fields) < MaxRowChars
    /\ \E c \in {"a", " ", ",", DQ, BS} :
          fields' = [fields EXCEPT ![Len(fields)] = Append(@, c)]
    /\ UNCHANGED <<pc, quoteVars, delim, tokens, row, parts, encodeVars, decodeVars>>

JoinRaw ==
    /\ pc = "input"
    /\ fields # <<>>
    /\ tokens' = fields
    /\ row' = Join(fields, delim)
    /\ pc' = "joinedRaw"
    /\ UNCHANGED <<quoteVars, fields, delim, parts, encodeVars, decodeVars>>

JoinQuoted ==
    /\ pc = "input"
    /\ fields # <<>>
    /\ tokens' = [i \in 1..Len(fields) |-> quote_string(fields[i])]
    /\ row' = Join(tokens', delim)
    /\ pc' = "joinedQuoted"
    /\ UNCHANGED <<quoteVars, fields, delim, parts, encodeVars, decodeVars>>

SplitRow ==
    /\ pc \in {"joinedRaw", "joinedQuoted"}
    /\ parts' = split_line_by_delimiter(row, delim)
    /\ pc' = IF pc = "joinedRaw" THEN "splitRaw" ELSE "splitQuoted"
    /\ UNCHANGED <<quoteVars, fields, delim, tokens, row, encodeVars, decodeVars>>

NextSplit == AddField \/ TypeFieldChar \/ JoinRaw \/ JoinQuoted \/ SplitRow

SpecSplit == InitSplit /\ [][NextSplit]_vars

NoFieldNeedsQuoting ==
    \A i \in 1..Len(fields) : ~needs_quoting(fields[i], delim, FALSE, FALSE)

\* C3: for each delimiter d and each non-empty list of fields none of which needs
\* quoting under d, splitting the d-joined line returns exactly that list.
C3_SplitUnquoted == (pc = "splitRaw" /\ NoFieldNeedsQuoting) => parts = fields

C3_Witness ==
    /\ pc = "splitRaw"
    /\ NoFieldNeedsQuoting
    /\ Len(fields) >= 2
    /\ delim = <<"|">>
    /\ \E i \in 1..Len(fields) : HasChar(fields[i], ",")
    /\ parts = fields

\* C4: for each delimiter d and each list of single-line strings, after each is
\* passed through quote_string, splitting the d-joined line returns exactly the
\* list of quoted tokens.
C4_SplitQuoted == pc = "splitQuoted" => parts = tokens

(***************************************************************************)
(* decode(text) on a TONLDecoder with default DecodeOptions: the header    *)
(* loop one line at a time, then the top-level loop one item at a time.    *)
(***************************************************************************)
data_lines == Drop(lines, start_idx)

\* decoder.decode(text) is called: lines = tonl_str.splitlines()
CallDecode ==
    /\ pc \in {"doc", "encoded"}
    /\ text' = IF pc = "doc" THEN Join(doc, <<NL>>) ELSE text
    /\ lines' = splitlines(text')
    /\ start_idx' = 0
    /\ pc' = "headers"
    /\ UNCHANGED <<quoteVars, splitVars, doc, data, options, delimiter, top_i, result, ret, error, strict>>

\* one iteration of the loop of _parse_headers on a header line
HeaderLine ==
    /\ pc = "headers"
    /\ start_idx < Len(lines)
    /\ LET eff == HeaderLineEffect(lines[start_idx + 1], delimiter)
       IN  /\ eff.kind # "break"
           /\ IF eff.kind = "raise"
              THEN /\ pc' = "raised"
                   /\ error' = "ValueError"
                   /\ UNCHANGED <<delimiter, start_idx>>
              ELSE /\ delimiter' = eff.delimiter
                   /\ start_idx' = start_idx + 1
                   /\ UNCHANGED <<pc, error>>
    /\ UNCHANGED <<quoteVars, splitVars, encodeVars, lines, top_i, result, ret, strict>>

\* _parse_headers returns at the first data line or at the end of the lines;
\* decode returns {} when no data line is left, else starts the top-level loop
BeginData ==
    /\ pc = "headers"
    /\ IF start_idx < Len(lines)
       THEN HeaderLineEffect(lines[start_idx + 1], delimiter).kind = "break"
       ELSE TRUE
    /\ IF data_lines = <<>>
       THEN /\ pc' = "returned"
            /\ ret' = VMap(<<>>)
            /\ UNCHANGED <<top_i, result>>
       ELSE /\ pc' = "data"
            /\ top_i' = 0
            /\ result' = VMap(<<>>)
            /\ UNCHANGED ret
    /\ UNCHANGED <<quoteVars, splitVars, encodeVars, lines, delimiter, start_idx, error, strict>>

\* what the top-level loop does with the outcome of _parse_lines on line idx + 1
\* of data_lines: the next control location, cursor, result and error
TopItemResult(idx, res0, sub) ==
    IF sub.hung
    THEN [pc |-> "hung", i |-> idx, result |-> res0, error |-> ""]
    ELSE IF sub.error # ""
    THEN [pc |-> "raised", i |-> idx, result |-> res0, error |-> sub.error]
    ELSE IF sub.result.t = "map" /\ res0.t # "map"
    THEN [pc |-> "raised", i |-> idx, result |-> res0, error |-> "AttributeError"]
    ELSE [pc |-> "data",
          i |-> idx + sub.consumed,
          result |-> IF sub.result.t = "null" THEN res0
                     ELSE IF sub.result.t = "map" THEN VMap(MapUpdate(res0.v, sub.result.v))
                     ELSE IF IsFalsy(res0) THEN sub.result
                     ELSE res0,
          error |-> ""]

\* the assignments of one iteration
TopItemAssign(eff) ==
    /\ pc' = eff.pc
    /\ top_i' = eff.i
    /\ result' = eff.result
    /\ error' = eff.error

\* one iteration of the top-level loop of decode
TopItem ==
    /\ pc = "data"
    /\ top_i < Len(data_lines)
    /\ IF IsBlank(data_lines[top_i + 1])
       THEN /\ top_i' = top_i + 1
            /\ UNCHANGED <<pc, result, error>>
       ELSE TopItemAssign(TopItemResult(top_i, result, ParseLines(data_lines, top_i + 1,
                                                      [delimiter |-> delimiter, strict |-> strict])))
    /\ UNCHANGED <<quoteVars, splitVars, encodeVars, lines, delimiter, start_idx, ret, strict>>

\* the loop is over: the final unwrap and the return
Return ==
    /\ pc = "data"
    /\ top_i >= Len(data_lines)
    /\ ret' = Unwrap(result)
    /\ pc' = "returned"
    /\ UNCHANGED <<quoteVars, splitVars, encodeVars, lines, delimiter, start_idx, top_i, result, error, strict>>

DecodeNext == CallDecode \/ HeaderLine \/ BeginData \/ TopItem \/ Return

(***************************************************************************)
(* decode as one function of the text and of the decoder it is called on:  *)
(* the same loops, run to their end.  The outcome is [pc, ret, error,      *)
(* delimiter], delimiter being self.delimiter after the call.              *)
(***************************************************************************)
\* _parse_headers(lines) from line k + 1 on: the index of the first data line
RECURSIVE parse_headers(_, _, _)
parse_headers(L, k, d) ==
    IF k >= Len(L) THEN [raised |-> FALSE, start_idx |-> k, delimiter |-> d]
    ELSE IF HeaderLineEffect(L[k + 1], d).kind = "raise"
    THEN [raised |-> TRUE, start_idx |-> k, delimiter |-> d]
    ELSE IF HeaderLineEffect(L[k + 1], d).kind = "break"
    THEN [raised |-> FALSE, start_idx |-> k, delimiter |-> d]
    ELSE parse_headers(L, k + 1, HeaderLineEffect(L[k + 1], d).delimiter)

RECURSIVE TopLevelLoop(_, _, _, _)

\* the top-level loop after one item
TopLevelStep(DL, self, eff) ==
    IF eff.pc = "data" THEN TopLevelLoop(DL, eff.i, eff.result, self)
    ELSE [pc |-> eff.pc, ret |-> VNull, error |-> eff.error, delimiter |-> self.delimiter]

\* the top-level loop of decode from data line k + 1 on, and the final unwrap
TopLevelLoop(DL, k, res0, self) ==
    IF k >= Len(DL)
    THEN [pc |-> "returned", ret |-> Unwrap(res0), error |-> "", delimiter |-> self.delimiter]
    ELSE IF IsBlank(DL[k + 1]) THEN TopLevelLoop(DL, k + 1, res0, self)
    ELSE TopLevelStep(DL, self, TopItemResult(k, res0, ParseLines(DL, k + 1, self)))

\* decode after _parse_headers has returned hd
DecodeData(L, hd, self) ==
    IF hd.raised
    THEN [pc |-> "raised", ret |-> VNull, error |-> "ValueError", delimiter |-> hd.delimiter]
    ELSE IF Drop(L, hd.start_idx) = <<>>
    THEN [pc |-> "returned", ret |-> VMap(<<>>), error |-> "", delimiter |-> hd.delimiter]
    ELSE TopLevelLoop(Drop(L, hd.start_idx), 0, VMap(<<>>),
                      [delimiter |-> hd.delimiter, strict |-> self.strict])

\* TONLDecoder.decode(tonl_str) on the decoder self
decode(tonl_str, self) ==
    DecodeData(splitlines(tonl_str), parse_headers(splitlines(tonl_str), 0, self.delimiter), self)

(***************************************************************************)
(* Decoding documents: a caller writes a document line by line and calls   *)
(* decode on it; decode runs its header loop and its top-level loop one    *)
(* line or item at a time.                                                  *)
(***************************************************************************)
\* the lines a document is written from: version and delimiter headers, key-value
\* lines, array and map headers, a row, an indexed item, an opening triple quote
LinePool ==
    {<<"#", "v", "e", "r", "s", "i", "o", "n", " ", "1", ".", "0">>,
     <<"#", "v", "e", "r", "s", "i", "o", "n", " ", "2", ".", "0">>,
     <<"#", "d", "e", "l", "i", "m", "i", "t", "e", "r", " ", "|">>,
     <<"r", "o", "o", "t", ":", " ", "5">>,
     <<"v", "a", "l", "u", "e", ":", " ", "n", "u", "l", "l">>,
     <<"i", "t", "e", "m", "s", "[", "0", "]", ":">>,
     <<"u", "s", "e", "r", "s", "[", "2", "]", "{", "i", "d", "}", ":">>,
     <<" ", " ", "1">>,
     <<"[", "0", "]", "[", "2", "]", ":", " ", "1", ",", " ", "2">>,
     <<"r", "o", "o", "t", "{", "a", "}", ":", " ", "-">>,
     <<"k", ":", " ", DQ, DQ, DQ, "x">>,
     <<"a", ":", " ", "1">>,
     <<"r", "o", "o", "t", "{", "a", "}", ":", " ", "a", ":", " ", "1">>,
     <<" ", " ", "[", "0", "]", ":", " ", "7">>}

Init ==
    /\ pc = "doc"
    /\ s = <<>>
    /\ quoted = <<>>
    /\ unquoted = <<>>
    /\ fields = <<>>
    /\ delim = <<",">>
    /\ tokens = <<>>
    /\ row = <<>>
    /\ parts = <<>>
    /\ doc = <<>>
    /\ data = VNull
    /\ options = DefaultEncodeOptions
    /\ text = <<>>
    /\ lines = <<>>
    /\ delimiter = <<",">>
    /\ start_idx = 0
    /\ top_i = 0
    /\ result = VMap(<<>>)
    /\ ret = VNull
    /\ error = ""
    /\ strict = FALSE

\* the caller appends one line to the document
AddLine ==
    /\ pc = "doc"
    /\ Len(doc) < MaxLines
    /\ \E l \in LinePool : doc' = Append(doc, l)
    /\ UNCHANGED <<pc, quoteVars, splitVars, data, options, text, decodeVars>>

Next == AddLine \/ DecodeNext

Spec == Init /\ [][Next]_vars

\* Python's == on two values: lists item by item in order, maps key by key
\* whatever the order of insertion
RECURSIVE EqualValue(_, _)
EqualValue(a, b) ==
    /\ a.t = b.t
    /\ CASE a.t = "list" ->
              /\ Len(a.v) = Len(b.v)
              /\ \A n \in 1..Len(a.v) : EqualValue(a.v[n], b.v[n])
         [] a.t = "map" ->
              /\ Len(a.v) = Len(b.v)
              /\ \A n \in 1..Len(a.v) :
                    /\ HasKey(b.v, a.v[n].k)
                    /\ EqualValue(a.v[n].v, MapGet(b.v, a.v[n].k))
         [] OTHER -> a.v = b.v

\* a line the header phase consumes: blank, "#version...", "#delimiter...", "@..."
IsHeaderShaped(l) ==
    \/ Strip(l) = <<>>
    \/ StartsWith(Strip(l), VersionTag)
    \/ StartsWith(Strip(l), DelimiterTag)
    \/ StartsWith(Strip(l), <<"@">>)

\* a "#version" line that says exactly 1.0
SaysOneZero(l) == SplitWs(Strip(l)) = <<VersionTag, SupportedVersion>>

\* line k is a "#version" line of the header phase that does not say 1.0
BadVersionAt(k) ==
    /\ StartsWith(Strip(lines[k]), VersionTag)
    /\ ~SaysOneZero(lines[k])
    /\ \A j \in 1..(k - 1) : IsHeaderShaped(lines[j])

BadVersionInHeaders == \E k \in 1..Len(lines) : BadVersionAt(k)

\* C7: once the header phase is over, decode has failed with the version error
\* exactly when a "#version" line of the header phase says something other than
\* 1.0; and it fails before any data line is parsed, with nothing returned.
C7_VersionCheck ==
    /\ pc \in {"data", "returned", "hung", "raised"} =>
          ((pc = "raised" /\ error = "ValueError") <=> BadVersionInHeaders)
    /\ (pc = "raised" /\ error = "ValueError") =>
          (top_i = 0 /\ result.t = "map" /\ result.v = <<>> /\ ret.t = "null")

\* a version error raised on a line that follows at least one accepted header line
C7_Witness ==
    /\ pc = "raised"
    /\ error = "ValueError"
    /\ start_idx > 0
    /\ \E j \in 1..start_idx : SaysOneZero(lines[j])

\* C8: decode terminates on every text: no loop of decode reaches an iteration
\* that leaves its own state unchanged and so repeats for ever.
C8_DecodeTerminates == pc # "hung"

\* C9: in non-strict mode decode fails only with the version error; whatever the
\* sequence of top-level items, no other exception leaves decode.
C9_DecodeTotal == pc = "raised" => error = "ValueError"

IsRootWrapped(v) == v.t = "map" /\ Len(v.v) = 1 /\ v.v[1].k = RootKey

MaxItems == 2

\* the tuples of exactly n entries of the sequence F, and of at most n entries
RECURSIVE TuplesOf(_, _)
TuplesOf(F, n) ==
    IF n = 0 THEN << <<>> >>
    ELSE LET shorter == TuplesOf(F, n - 1)
         IN  [m \in 1..(Len(shorter) * Len(F)) |->
                Append(shorter[((m - 1) \div Len(F)) + 1], F[((m - 1) % Len(F)) + 1])]

RECURSIVE TuplesUpTo(_, _)
TuplesUpTo(F, n) == IF n = 0 THEN TuplesOf(F, 0) ELSE TuplesUpTo(F, n - 1) \o TuplesOf(F, n)


SampleScalars ==
    <<VNull, VBool(TRUE), VInt(1), VStr(<<"x">>), VStr(<<>>), VStr(<<"b", ",", "c">>)>>

\* the values a map of a list holds: a string with a comma, and a nested list
SampleCells == <<VStr(<<"b", ",", "c">>), VList(<<VInt(1)>>)>>

\* the key lists of the maps: at most MaxItems of the keys "a" and "b", none twice
SampleKeyLists ==
    SelectSeq(TuplesUpTo(<< <<"a">>, <<"b">> >>, MaxItems),
              LAMBDA ks : \A m, n \in 1..Len(ks) : ks[m] = ks[n] => m = n)

\* the maps with the keys ks, in that order, over the cells
MapsOver(ks) ==
    LET cells == TuplesOf(SampleCells, Len(ks))
    IN  [m \in 1..Len(cells) |-> VMap([j \in 1..Len(ks) |-> [k |-> ks[j], v |-> cells[m][j]]])]

SampleMaps == Concat([n \in 1..Len(SampleKeyLists) |-> MapsOver(SampleKeyLists[n])])

SampleItems == SampleMaps \o <<VInt(1), VStr(<<"x">>)>>

SampleLists ==
    LET tuples == TuplesUpTo(SampleItems, MaxItems)
    IN  [n \in 1..Len(tuples) |-> VList(tuples[n])]

\* a single-key map around a value
Wrapped(key, seq) == [n \in 1..Len(seq) |-> VMap(<<[k |-> key, v |-> seq[n]]>>)]

RoundTripValues ==
    SampleScalars \o SampleMaps \o SampleLists
        \o Wrapped(<<"k">>, SampleLists) \o Wrapped(RootKey, SampleLists)

InitRoundTrip ==
    /\ pc = "value"
    /\ s = <<>>
    /\ quoted = <<>>
    /\ unquoted = <<>>
    /\ fields = <<>>
    /\ delim = <<",">>
    /\ tokens = <<>>
    /\ row = <<>>
    /\ parts = <<>>
    /\ doc = <<>>
    /\ \E n \in 1..Len(RoundTripValues) : data = RoundTripValues[n]
    /\ options = DefaultEncodeOptions
    /\ text = <<>>
    /\ lines = <<>>
    /\ delimiter = <<",">>
    /\ start_idx = 0
    /\ top_i = 0
    /\ result = VMap(<<>>)
    /\ ret = VNull
    /\ error = ""
    /\ strict = FALSE

\* encode(data, options): the lines, and the text that joins them
Encode ==
    /\ pc = "value"
    /\ doc' = EncodeLines(data, options)
    /\ text' = Join(doc', <<NL>>)
    /\ pc' = "encoded"
    /\ UNCHANGED <<quoteVars, splitVars, data, options, decodeVars>>

NextRoundTrip == Encode \/ DecodeNext

SpecRoundTrip == InitRoundTrip /\ [][NextRoundTrip]_vars

\* equality up to the one allowed loss: an empty string may come back as null
RECURSIVE RoundTripEqual(_, _)
RoundTripEqual(a, b) ==
    \/ a.t = "str" /\ a.v = <<>> /\ b.t = "null"
    \/ /\ a.t = b.t
       /\ CASE a.t = "list" ->
                 /\ Len(a.v) = Len(b.v)
                 /\ \A n \in 1..Len(a.v) : RoundTripEqual(a.v[n], b.v[n])
            [] a.t = "map" ->
                 /\ Len(a.v) = Len(b.v)
                 /\ \A n \in 1..Len(a.v) :
                       /\ HasKey(b.v, a.v[n].k)
                       /\ RoundTripEqual(a.v[n].v, MapGet(b.v, a.v[n].k))
            [] OTHER -> a.v = b.v

\* C1: decode(encode(V, default options)) ends by returning a value equal to V,
\* except that an empty string may have become null.
C1_RoundTrip ==
    pc \in {"returned", "raised", "hung"} => (pc = "returned" /\ RoundTripEqual(data, ret))

\* the list the document is about, when the value is a list or a single-key map
\* around a list, and the key it is encoded under
HasArray == data.t = "list" \/ (data.t = "map" /\ Len(data.v) = 1 /\ data.v[1].v.t = "list")
ArrayKey == IF data.t = "list" THEN RootKey ELSE data.v[1].k
ArrayItems == IF data.t = "list" THEN data.v ELSE data.v[1].v.v

IsListOfMaps(arr) == arr # <<>> /\ \A n \in 1..Len(arr) : arr[n].t = "map"
SameKeySets(arr) == \A n \in 1..Len(arr) : KeySet(arr[n].v) = KeySet(arr[1].v)
OnlyScalars(arr) == \A n \in 1..Len(arr) : \A m \in 1..Len(arr[n].v) : ~IsContainer(arr[n].v[m].v)

SizedKey == ArrayKey \o <<"[">> \o NatToStr(Len(ArrayItems)) \o <<"]">>
TabularHeader == SizedKey \o <<"{">> \o Join(Keys(ArrayItems[1].v), <<",">>) \o <<"}", ":">>
MixedHeader == SizedKey \o <<":">>
IsIndexedEntry(l, n) == StartsWith(l, <<" ", " ", "[">> \o NatToStr(n) \o <<"]">>)

\* C5: the encoding of a list of maps is tabular (the header key[N]{cols}: and one
\* row per element) when the maps have the same key set and hold only scalars,
\* and is the mixed form (the header key[N]: and indexed entries from [0] on)
\* when one key set differs or one map holds a list or a map.
C5_TabularUniformity ==
    (pc # "value" /\ HasArray /\ IsListOfMaps(ArrayItems)) =>
        IF SameKeySets(ArrayItems) /\ OnlyScalars(ArrayItems)
        THEN /\ Len(doc) = 2 + Len(ArrayItems)
             /\ doc[2] = TabularHeader
             /\ \A n \in 1..Len(ArrayItems) :
                   StartsWith(doc[2 + n], <<" ", " ">>) /\ ~IsIndexedEntry(doc[2 + n], n - 1)
        ELSE /\ Len(doc) >= 2 + Len(ArrayItems)
             /\ doc[2] = MixedHeader
             /\ IsIndexedEntry(doc[3], 0)
             /\ \A n \in 1..Len(ArrayItems) : \E j \in 3..Len(doc) : IsIndexedEntry(doc[j], n - 1)

\* two maps with the same two keys in different orders, encoded as a table
C5_Witness ==
    /\ pc = "encoded"
    /\ HasArray
    /\ Len(ArrayItems) = 2
    /\ IsListOfMaps(ArrayItems)
    /\ SameKeySets(ArrayItems)
    /\ OnlyScalars(ArrayItems)
    /\ Len(ArrayItems[1].v) = 2
    /\ Keys(ArrayItems[1].v) # Keys(ArrayItems[2].v)
    /\ doc[2] = TabularHeader

HasStringWith(arr, c) ==
    \E n \in 1..Len(arr) : \E m \in 1..Len(arr[n].v) :
        arr[n].v[m].v.t = "str" /\ HasChar(arr[n].v[m].v.v, c)

\* C6: with the default options, a single-key map around a list of maps whose
\* strings hold commas and no "|" is encoded with the delimiter "|": the second
\* line of the document is "#delimiter |".
C6_AutoDelimiter ==
    (/\ pc = "encoded"
     /\ options = DefaultEncodeOptions
     /\ data.t = "map"
     /\ HasArray
     /\ IsListOfMaps(ArrayItems)
     /\ HasStringWith(ArrayItems, ",")
     /\ ~HasStringWith(ArrayItems, "|"))
        => (Len(doc) >= 2 /\ doc[2] = DelimiterTag \o <<" ", "|">>)

\* the value is a single-key map around a list or a map
IsKeyedContainer == data.t = "map" /\ Len(data.v) = 1 /\ IsContainer(data.v[1].v)

\* C11: for every key k and every list or map v, the encoding of {k: v} puts v
\* under the key k itself (the first data line starts with k and an opening
\* bracket or brace), and decoding the text returns a single-key map whose key
\* is k.
C11_KeyPreservation ==
    (pc = "returned" /\ IsKeyedContainer) =>
        /\ Len(doc) >= 2
        /\ \/ StartsWith(doc[2], data.v[1].k \o <<"[">>)
           \/ StartsWith(doc[2], data.v[1].k \o <<"{">>)
        /\ ret.t = "map"
        /\ Len(ret.v) = 1
        /\ ret.v[1].k = data.v[1].k

(***************************************************************************)
(* Literals: a caller builds a string, the encoder formats it as a token   *)
(* of a key-value line, of an inline map or of a tabular row, and the      *)
(* decoder parses the token.                                               *)
(***************************************************************************)
InitLiteral ==
    /\ pc = "literal"
    /\ s = <<>>
    /\ quoted = <<>>
    /\ unquoted = <<>>
    /\ fields = <<>>
    /\ delim \in {<<",">>, <<"|">>, <<";">>, <<TAB>>}
    /\ tokens = <<>>
    /\ row = <<>>
    /\ parts = <<>>
    /\ doc = <<>>
    /\ data = VNull
    /\ options = DefaultEncodeOptions
    /\ text = <<>>
    /\ lines = <<>>
    /\ delimiter = <<",">>
    /\ start_idx = 0
    /\ top_i = 0
    /\ result = VMap(<<>>)
    /\ ret = VNull
    /\ error = ""
    /\ strict = FALSE

TypeLiteralChar ==
    /\ pc = "literal"
    /\ Len(s) < MaxLiteralLen
    /\ \E c \in {"N", "a", "n", "1", "-", ".", "e", " ", ":", DQ} : s' = Append(s, c)
    /\ UNCHANGED <<pc, quoted, unquoted, splitVars, encodeVars, decodeVars>>

InSingleLineObject == pc \in {"inlineMap", "inlineMapParsed"}
InTabularContext == pc \in {"tabularRow", "tabularRowParsed"}

\* _format_primitive_value(s, ...) in one of the contexts it is called in:
\* _encode_primitive and _encode_primitive_array, _encode_object's single line,
\* _encode_tabular_array
FormatLiteral ==
    /\ pc = "literal"
    /\ \E c \in {"keyValue", "inlineMap", "tabularRow"} :
          /\ pc' = c
          /\ quoted' = format_primitive_value(VStr(s), delim, c = "inlineMap", c = "tabularRow")
    /\ UNCHANGED <<s, unquoted, splitVars, encodeVars, decodeVars>>

\* parse_primitive_value on the token
ParseLiteral ==
    /\ pc \in {"keyValue", "inlineMap", "tabularRow"}
    /\ ret' = parse_primitive_value(quoted)
    /\ pc' = CASE pc = "keyValue" -> "keyValueParsed"
               [] pc = "inlineMap" -> "inlineMapParsed"
               [] pc = "tabularRow" -> "tabularRowParsed"
    /\ UNCHANGED <<quoteVars, splitVars, encodeVars, lines, delimiter, start_idx, top_i, result, error, strict>>

NextLiteral == TypeLiteralChar \/ FormatLiteral \/ ParseLiteral

SpecLiteral == InitLiteral /\ [][NextLiteral]_vars

LiteralParsed == pc \in {"keyValueParsed", "inlineMapParsed", "tabularRowParsed"}

LooksTyped(str) == Lower(str) \in ReservedWords \/ is_number(str)

\* C12: a string that needs_quoting lets through, for the delimiter and the
\* context at hand, is emitted as it is and parses back to the same string,
\* never to null, a boolean or a number; a reserved word in any letter case and
\* a number-like string are emitted quoted.
C12_LiteralOrString ==
    /\ (LiteralParsed /\ ~needs_quoting(s, delim, InSingleLineObject, InTabularContext)) =>
          (quoted = s /\ ret.t = "str" /\ ret.v = s)
    /\ (LiteralParsed /\ LooksTyped(s)) =>
          (StartsWith(quoted, <<DQ>>) /\ ret.t = "str" /\ ret.v = s)

\* a string with a colon went out bare in a tabular row and came back as the
\* same string
C12_Witness ==
    /\ InTabularContext
    /\ LiteralParsed
    /\ delim = <<"|">>
    /\ s = <<"N", ":", "1">>
    /\ quoted = s
    /\ ret.t = "str"
    /\ ret.v = s

(***************************************************************************)
(* Tables and type hints: a caller writes a document of block headers with *)
(* and without type hints, rows of one to three fields and map children,   *)
(* and decodes it with a decoder whose options are strict or not.          *)
(***************************************************************************)
TablePool ==
    {<<"t", "[", "2", "]", "{", "a", ",", "b", "}", ":">>,
     <<"t", "[", "2", "]", "{", "a", ":", "u", "3", "2", ",", "b", ":", "s", "t", "r", "}", ":">>,
     <<" ", " ", "1">>,
     <<" ", " ", "1", ",", " ", "x">>,
     <<" ", " ", "1", ",", " ", "x", ",", " ", "2">>,
     <<" ", " ", "x", ",", " ", "1">>,
     <<>>,
     <<"m", "{", "a", "}", ":", " ", "a", ":", " ", "1">>,
     <<"m", "{", "a", ":", "u", "3", "2", "}", ":", " ", "a", ":", " ", "1">>,
     <<"m", "{", "a", ":", "u", "3", "2", "}", ":">>,
     <<" ", " ", "a", ":", " ", "1">>}

InitTable ==
    /\ pc = "doc"
    /\ s = <<>>
    /\ quoted = <<>>
    /\ unquoted = <<>>
    /\ fields = <<>>
    /\ delim = <<",">>
    /\ tokens = <<>>
    /\ row = <<>>
    /\ parts = <<>>
    /\ doc = <<>>
    /\ data = VNull
    /\ options = DefaultEncodeOptions
    /\ text = <<>>
    /\ lines = <<>>
    /\ delimiter = <<",">>
    /\ start_idx = 0
    /\ top_i = 0
    /\ result = VMap(<<>>)
    /\ ret = VNull
    /\ error = ""
    /\ strict \in BOOLEAN

\* the caller appends one line to the document
AddTableLine ==
    /\ pc = "doc"
    /\ Len(doc) < MaxLines
    /\ \E l \in TablePool : doc' = Append(doc, l)
    /\ UNCHANGED <<pc, quoteVars, splitVars, data, options, text, decodeVars>>

NextTable == AddTableLine \/ DecodeNext

SpecTable == InitTable /\ [][NextTable]_vars

\* a header key[N]{cols}: with at least one column and nothing after the colon
IsTabularHeader(l) ==
    IF parse_header(Strip(l)).ok
    THEN /\ parse_header(Strip(l)).is_array
         /\ parse_header(Strip(l)).columns # <<>>
         /\ parse_header(Strip(l)).rest = <<>>
    ELSE FALSE

ColumnsOf(l) == parse_header(Strip(l)).columns

\* line k is a row of the table that line 1 opens: every line from 2 to k is
\* blank or indented deeper than the header, and line k is not blank
IsRowOfFirstTable(k) ==
    /\ k >= 2
    /\ k <= Len(lines)
    /\ IsTabularHeader(lines[1])
    /\ ~IsBlank(lines[k])
    /\ \A j \in 2..k : IsBlank(lines[j]) \/ IndentOf(lines[j]) > IndentOf(lines[1])

FieldsOf(l) == split_line_by_delimiter(Strip(l), delimiter)

\* C13: with options.strict set, a document whose table has a row with fewer
\* fields than the header has columns makes decode fail; no value is returned.
C13_StrictArity ==
    (/\ pc \in {"returned", "raised", "hung"}
     /\ strict
     /\ \E k \in 2..Len(lines) :
           IsRowOfFirstTable(k) /\ Len(FieldsOf(lines[k])) < Len(ColumnsOf(lines[1])))
        => pc = "raised"

\* a key-value line whose value opens a triple quote and holds no closing one
OpensTripleQuote(l) ==
    IF ~parse_header(Strip(l)).ok /\ parse_key_value(Strip(l)).ok
    THEN /\ StartsWith(Strip(parse_key_value(Strip(l)).value), TQ)
         /\ ~has_unescaped_triple_quote(Drop(Strip(parse_key_value(Strip(l)).value), 3))
    ELSE FALSE

\* the last line of the text opens a triple quote that nothing closes, and no
\* line before it opens one
UnterminatedAtEnd ==
    /\ lines # <<>>
    /\ OpensTripleQuote(lines[Len(lines)])
    /\ \A k \in 1..(Len(lines) - 1) : ~OpensTripleQuote(lines[k])

\* C14: a text whose last line opens a triple-quoted value that is never closed
\* makes decode fail; no value is returned for it.
C14_UnterminatedQuote ==
    (pc \in {"returned", "raised", "hung"} /\ UnterminatedAtEnd) => pc = "raised"

(***************************************************************************)
(* One decoder, several texts: after a call has returned or raised, the    *)
(* caller writes another document and calls decode on the same             *)
(* TONLDecoder.  The locals of the call are gone; the fields of the        *)
(* instance, self.delimiter and self.options, stay as the call left them.  *)
(***************************************************************************)
NewDocument ==
    /\ pc \in {"returned", "raised"}
    /\ pc' = "doc"
    /\ doc' = <<>>
    /\ text' = <<>>
    /\ lines' = <<>>
    /\ start_idx' = 0
    /\ top_i' = 0
    /\ result' = VMap(<<>>)
    /\ ret' = VNull
    /\ error' = ""
    /\ UNCHANGED <<quoteVars, splitVars, data, options, delimiter, strict>>

NextReuse == AddLine \/ DecodeNext \/ NewDocument

SpecReuse == Init /\ [][NextReuse]_vars

\* what a new TONLDecoder with the same options makes of the text
FreshOutcome == decode(text, [delimiter |-> <<",">>, strict |-> strict])

\* C15: every decode call starts with the comma as the active delimiter, and
\* ends as the call of a new decoder on the same text ends: the same return or
\* failure, the same value.
C15_NoStateAcrossCalls ==
    /\ (pc = "headers" /\ start_idx = 0) => delimiter = <<",">>
    /\ pc \in {"returned", "raised", "hung"} =>
          /\ FreshOutcome.pc = pc
          /\ FreshOutcome.error = error
          /\ pc = "returned" => EqualValue(FreshOutcome.ret, ret)

(***************************************************************************)
(* Forced delimiters: a caller encodes a value with one of the four        *)
(* delimiters set in EncodeOptions and decodes the text, as it is or with  *)
(* the tab of the "#delimiter" line rewritten as the escape \t.            *)
(***************************************************************************)
\* strings that hold the delimiters, and one that holds none
DelimitedStrings ==
    <<VStr(<<"x">>), VStr(<<"a", ",", "b">>), VStr(<<"a", "|", "b">>),
      VStr(<<"a", ";", "b">>), VStr(<<"a", TAB, "b">>)>>

\* lists of the strings, and single-key maps around lists of one-column rows
DelimiterValues ==
    LET tuples == TuplesUpTo(DelimitedStrings, MaxItems)
    IN  [n \in 1..Len(tuples) |-> VList(tuples[n])]
        \o [n \in 1..Len(tuples) |->
              VMap(<<[k |-> <<"k">>,
                      v |-> VList([m \in 1..Len(tuples[n]) |->
                                     VMap(<<[k |-> <<"a">>, v |-> tuples[n][m]]>>)])]>>)]

InitDelimiter ==
    /\ pc = "value"
    /\ s = <<>>
    /\ quoted = <<>>
    /\ unquoted = <<>>
    /\ fields = <<>>
    /\ delim = <<",">>
    /\ tokens = <<>>
    /\ row = <<>>
    /\ parts = <<>>
    /\ doc = <<>>
    /\ \E n \in 1..Len(DelimiterValues) : data = DelimiterValues[n]
    /\ \E d \in {<<",">>, <<"|">>, <<";">>, <<TAB>>} :
          options = [DefaultEncodeOptions EXCEPT !.delimiter = d]
    /\ text = <<>>
    /\ lines = <<>>
    /\ delimiter = <<",">>
    /\ start_idx = 0
    /\ top_i = 0
    /\ result = VMap(<<>>)
    /\ ret = VNull
    /\ error = ""
    /\ strict = FALSE

\* the caller rewrites "#delimiter <tab>" as "#delimiter \t"
EscapeTab ==
    /\ pc = "encoded"
    /\ Len(doc) >= 2
    /\ doc[2] = DelimiterTag \o <<" ", TAB>>
    /\ doc' = [doc EXCEPT ![2] = DelimiterTag \o <<" ", BS, "t">>]
    /\ text' = Join(doc', <<NL>>)
    /\ UNCHANGED <<pc, quoteVars, splitVars, data, options, decodeVars>>

NextDelimiter == Encode \/ EscapeTab \/ DecodeNext

SpecDelimiter == InitDelimiter /\ [][NextDelimiter]_vars

\* C16: decoding the text encoded with the delimiter d forced in EncodeOptions,
\* the decoder's active delimiter is d from the first data line to the end of
\* the call and the call returns; for the comma the text has no "#delimiter"
\* line, for the others its second line is "#delimiter " and d, or the escape
\* \t for the tab.
C16_DelimiterHeader ==
    /\ pc \in {"data", "returned", "raised", "hung"} =>
          (delimiter = options.delimiter /\ pc \in {"data", "returned"})
    /\ pc # "value" =>
          /\ Len(doc) >= 2
          /\ IF options.delimiter = <<",">>
             THEN ~StartsWith(doc[2], DelimiterTag)
             ELSE \/ doc[2] = DelimiterTag \o <<" ">> \o options.delimiter
                  \/ options.delimiter = <<TAB>> /\ doc[2] = DelimiterTag \o <<" ", BS, "t">>

\* a text whose header says "#delimiter \t", decoded with the tab as delimiter
C16_Witness ==
    /\ pc = "returned"
    /\ options.delimiter = <<TAB>>
    /\ doc[2] = DelimiterTag \o <<" ", BS, "t">>
    /\ delimiter = <<TAB>>
    /\ data.t = "list"
    /\ Len(data.v) = 2

\* the parts of a column list without their hints, joined again
NamesOnly(col_parts) ==
    Join([j \in 1..Len(col_parts) |-> Take(col_parts[j], FindChar(col_parts[j], 1, ":") - 1)], <<",">>)

StripHintsBetween(l, open, close) ==
    Take(l, open) \o NamesOnly(SplitOn(SubSeq(l, open + 1, close - 1), ",")) \o Drop(l, close - 1)

\* a line with the type hints of its header's column list removed: every part
\* "name:type" between the braces becomes "name"
StripHintsOfLine(l) ==
    IF /\ parse_header(Strip(l)).ok
       /\ FindChar(l, 1, "{") < FindChar(l, 1, ":")
       /\ FindChar(l, FindChar(l, 1, "{") + 1, "}") <= Len(l)
    THEN StripHintsBetween(l, FindChar(l, 1, "{"), FindChar(l, FindChar(l, 1, "{") + 1, "}"))
    ELSE l

\* the text with the hints of every line removed
HintsStripped == Join([k \in 1..Len(lines) |-> StripHintsOfLine(lines[k])], <<NL>>)

\* what a non-strict decoder makes of the text without the hints
PlainOutcome == decode(HintsStripped, [delimiter |-> <<",">>, strict |-> FALSE])

\* C17: with strict false, decoding a document ends as decoding the same
\* document without its type hints ends: the same return or failure, the same
\* value.
C17_HintsAdvisory ==
    (pc \in {"returned", "raised", "hung"} /\ ~strict) =>
        /\ PlainOutcome.pc = pc
        /\ PlainOutcome.error = error
        /\ pc = "returned" => EqualValue(PlainOutcome.ret, ret)

\* a row "x, 1" under the header t[2]{a:u32,b:str}: returned as {a: "x", b: 1}
C17_Witness ==
    /\ pc = "returned"
    /\ ~strict
    /\ Len(lines) = 2
    /\ HintsStripped # text
    /\ parse_header(lines[1]).ok
    /\ parse_header(lines[1]).type_hints # <<>>
    /\ EqualValue(ret, VMap(<<[k |-> <<"t">>,
                               v |-> VList(<<VMap(<<[k |-> <<"a">>, v |-> VStr(<<"x">>)],
                                                    [k |-> <<"b">>, v |-> VInt(1)]>>)>>)]>>))

\* the map the claim expects of a row: the first min(columns, fields) columns,
\* each with the field at its position parsed
RECURSIVE ExpectedRow(_, _, _)
ExpectedRow(columns, row_values, n) ==
    IF n = 0 THEN <<>>
    ELSE Append(ExpectedRow(columns, row_values, n - 1),
                [k |-> columns[n], v |-> parse_primitive_value(row_values[n])])

Min(a, b) == IF a < b THEN a ELSE b

\* the rows of the table that line 1 opens, in order
RECURSIVE ExpectedRows(_)
ExpectedRows(k) ==
    IF k < 2 THEN <<>>
    ELSE IF IsRowOfFirstTable(k)
    THEN Append(ExpectedRows(k - 1),
                VMap(ExpectedRow(ColumnsOf(lines[1]), FieldsOf(lines[k]),
                                 Min(Len(ColumnsOf(lines[1])), Len(FieldsOf(lines[k]))))))
    ELSE ExpectedRows(k - 1)

\* the text is one table: a tabular header and, below it, rows and blank lines
IsOneTable ==
    /\ lines # <<>>
    /\ IsTabularHeader(lines[1])
    /\ \A k \in 2..Len(lines) : IsBlank(lines[k]) \/ IndentOf(lines[k]) > IndentOf(lines[1])

\* C20: with strict false, decoding a table returns, under the header's key, one
\* map per non-blank row, in order, whose entries are the first
\* min(columns, fields) columns paired by position with the parsed fields: a
\* short row misses its last columns and a long row loses its last fields.
C20_NonStrictRows ==
    (pc \in {"returned", "raised", "hung"} /\ ~strict /\ IsOneTable) =>
        /\ pc = "returned"
        /\ ret.t = "map"
        /\ Len(ret.v) = 1
        /\ ret.v[1].k = parse_header(lines[1]).key
        /\ ret.v[1].v.t = "list"
        /\ Len(ret.v[1].v.v) = Len(ExpectedRows(Len(lines)))
        /\ \A n \in 1..Len(ret.v[1].v.v) :
              /\ Keys(ret.v[1].v.v[n].v) = Keys(ExpectedRows(Len(lines))[n].v)
              /\ EqualValue(ret.v[1].v.v[n], ExpectedRows(Len(lines))[n])

\* a table with a row of one field and a row of three under two columns
C20_Witness ==
    /\ pc = "returned"
    /\ ~strict
    /\ IsOneTable
    /\ Len(ColumnsOf(lines[1])) = 2
    /\ \E j, k \in 2..Len(lines) :
          /\ IsRowOfFirstTable(j)
          /\ IsRowOfFirstTable(k)
          /\ Len(FieldsOf(lines[j])) = 1
          /\ Len(FieldsOf(lines[k])) = 3
    /\ Len(ret.v[1].v.v) = 2

(***************************************************************************)
(* One data line: a caller writes a line part by part (indentation, key,   *)
(* array size, column list, colon, rest) and _parse_lines is called on it. *)
(***************************************************************************)
\* the texts a part of the line is chosen from, well formed and not
LineParts(stage) ==
    CASE stage = "indent" -> {<<>>, <<" ", " ">>}
      [] stage = "key" -> {<<>>, <<"k">>, <<"k", "1">>, <<"1">>, <<"[", "0", "]">>, <<"[", "k", "]">>, <<"k", "-">>}
      [] stage = "size" -> {<<>>, <<"[", "2", "]">>, <<"[", "]">>, <<"[", "x", "]">>}
      [] stage = "cols" -> {<<>>, <<"{", "}">>, <<"{", "a", "}">>, <<"{", "a", ",", "b", ":", "u", "3", "2", "}">>, <<"{", "a">>}
      [] stage = "colon" -> {<<":">>, <<>>, <<" ", ":">>}
      [] stage = "rest" -> {<<>>, <<" ", "x">>, <<" ", "[", "2", "]", "{", "a", "}", ":", " ", "y">>, <<" ", "1", ",", " ", "2">>}

NextStage(stage) ==
    CASE stage = "indent" -> "key"
      [] stage = "key" -> "size"
      [] stage = "size" -> "cols"
      [] stage = "cols" -> "colon"
      [] stage = "colon" -> "rest"
      [] stage = "rest" -> "line"

InitLine ==
    /\ pc = "indent"
    /\ s = <<>>
    /\ quoted = <<>>
    /\ unquoted = <<>>
    /\ fields = <<>>
    /\ delim = <<",">>
    /\ tokens = <<>>
    /\ row = <<>>
    /\ parts = <<>>
    /\ doc = <<>>
    /\ data = VNull
    /\ options = DefaultEncodeOptions
    /\ text = <<>>
    /\ lines = <<>>
    /\ delimiter = <<",">>
    /\ start_idx = 0
    /\ top_i = 0
    /\ result = VMap(<<>>)
    /\ ret = VNull
    /\ error = ""
    /\ strict = FALSE

\* the caller writes the next part of the line
WritePart ==
    /\ pc \in {"indent", "key", "size", "cols", "colon", "rest"}
    /\ \E part \in LineParts(pc) : s' = s \o part
    /\ pc' = NextStage(pc)
    /\ UNCHANGED <<quoted, unquoted, splitVars, encodeVars, decodeVars>>

\* what _parse_lines([s], 0) leaves: the branch it took, its value, its count
LineOutcome(header_match, kv_match, sub) ==
    [pc |-> IF header_match.ok THEN "block" ELSE IF kv_match.ok THEN "keyValue" ELSE "skipped",
     result |-> sub.result,
     consumed |-> sub.consumed,
     error |-> IF sub.hung THEN "hung" ELSE sub.error]

ParseLineAssign(out) ==
    /\ pc' = out.pc
    /\ result' = out.result
    /\ top_i' = out.consumed
    /\ error' = out.error

\* _parse_lines is called on the line
ParseLine ==
    /\ pc = "line"
    /\ lines' = <<s>>
    /\ ParseLineAssign(LineOutcome(parse_header(Strip(s)), parse_key_value(Strip(s)),
                                   ParseLines(<<s>>, 1, [delimiter |-> delimiter, strict |-> strict])))
    /\ UNCHANGED <<quoteVars, splitVars, encodeVars, delimiter, start_idx, ret, strict>>

NextLine == WritePart \/ ParseLine

SpecLine == InitLine /\ [][NextLine]_vars

\* a run of word characters, or "[" digits "]"
IsKeyText(x) ==
    \/ x # <<>> /\ \A i \in 1..Len(x) : IsWord(x[i])
    \/ /\ Len(x) >= 3
       /\ x[1] = "[" /\ x[Len(x)] = "]"
       /\ \A i \in 2..(Len(x) - 1) : IsDigit(x[i])

\* "[" digits "]"
IsSizeText(x) ==
    /\ Len(x) >= 3
    /\ x[1] = "[" /\ x[Len(x)] = "]"
    /\ \A i \in 2..(Len(x) - 1) : IsDigit(x[i])

\* "{" anything without a closing brace "}"
IsColsText(x) ==
    /\ Len(x) >= 2
    /\ x[1] = "{" /\ x[Len(x)] = "}"
    /\ \A i \in 2..(Len(x) - 1) : x[i] # "}"

\* l reads key([N])?({cols})?: with at least one of [N] and {cols}
IsBlockLine(l) ==
    \E a \in 1..Len(l) : \E b \in a..Len(l) : \E c \in b..Len(l) :
        /\ IsKeyText(SubSeq(l, 1, a))
        /\ b = a \/ IsSizeText(SubSeq(l, a + 1, b))
        /\ c = b \/ IsColsText(SubSeq(l, b + 1, c))
        /\ c > a
        /\ c < Len(l) /\ l[c + 1] = ":"

\* l reads key: with nothing between the key and the colon
IsBareKeyValue(l) ==
    \E a \in 1..Len(l) :
        /\ IsKeyText(SubSeq(l, 1, a))
        /\ a < Len(l) /\ l[a + 1] = ":"

\* C18: a data line is parsed as a block exactly when it reads
\* key([N])?({cols})?:rest with an array size or a column list (an empty {}
\* counts); a bare key: value line is never a block and is parsed by the
\* key-value grammar
C18_BlockOrKeyValue ==
    pc \in {"block", "keyValue", "skipped"} =>
        /\ pc = "block" <=> IsBlockLine(Strip(s))
        /\ IsBareKeyValue(Strip(s)) => pc = "keyValue"

\* the line k{}: [2]{a}: y, whose only marker is an empty column list, was
\* parsed as a block
C18_Witness ==
    pc = "block" /\ s = <<"k", "{", "}", ":", " ", "[", "2", "]", "{", "a", "}", ":", " ", "y">>

(***************************************************************************)
(* One block: a caller writes a block header with nothing after its colon  *)
(* (tabular array, mixed array or map, at indentation 0 or 2) and up to    *)
(* MaxBlockLines following lines, and _parse_block is called on them.      *)
(***************************************************************************)
BlockHeaders ==
    {<<"t", "[", "1", "]", "{", "a", "}", ":">>,
     <<"l", "[", "1", "]", ":">>,
     <<"m", "{", "a", "}", ":">>,
     <<" ", " ", "t", "[", "1", "]", "{", "a", "}", ":">>,
     <<" ", " ", "l", "[", "1", "]", ":">>,
     <<" ", " ", "m", "{", "a", "}", ":">>}

FollowingLines ==
    {<<>>,
     <<"a", ":", " ", "1">>,
     <<"a", ":", " ", DQ, DQ, DQ, "x">>,
     <<"y", DQ, DQ, DQ>>,
     <<"l", "[", "1", "]", ":">>,
     <<" ", " ", "a", ":", " ", "1">>,
     <<" ", " ", "a", ":", " ", DQ, DQ, DQ, "x">>,
     <<" ", " ", "l", "[", "1", "]", ":">>,
     <<" ", " ", " ", " ", "a", ":", " ", "1">>,
     <<" ", " ", " ", " ", "l", "[", "1", "]", ":">>,
     <<" ", " ", " ", " ", "z">>}

InitBlock ==
    /\ pc = "lines"
    /\ s = <<>>
    /\ quoted = <<>>
    /\ unquoted = <<>>
    /\ fields = <<>>
    /\ delim = <<",">>
    /\ tokens = <<>>
    /\ row = <<>>
    /\ parts = <<>>
    /\ doc = <<>>
    /\ data = VNull
    /\ options = DefaultEncodeOptions
    /\ text = <<>>
    /\ \E header \in BlockHeaders : lines = <<header>>
    /\ delimiter = <<",">>
    /\ start_idx = 0
    /\ top_i = 0
    /\ result = VMap(<<>>)
    /\ ret = VNull
    /\ error = ""
    /\ strict = FALSE

\* the caller writes one more line under the header
AddFollowingLine ==
    /\ pc = "lines"
    /\ Len(lines) < 1 + MaxBlockLines
    /\ \E l \in FollowingLines : lines' = Append(lines, l)
    /\ UNCHANGED <<pc, quoteVars, splitVars, encodeVars, delimiter, start_idx, top_i, result, ret, error, strict>>

ParseBlockAssign(sub) ==
    /\ result' = sub.result
    /\ top_i' = sub.consumed
    /\ error' = IF sub.hung THEN "hung" ELSE sub.error

\* _parse_block(lines, header_info) is called on the lines
CallParseBlock ==
    /\ pc = "lines"
    /\ pc' = "blockParsed"
    /\ ParseBlockAssign(ParseBlock(lines, 1, parse_header(Strip(lines[1])),
                                   [delimiter |-> delimiter, strict |-> strict]))
    /\ UNCHANGED <<quoteVars, splitVars, encodeVars, lines, delimiter, start_idx, ret, strict>>

NextBlock == AddFollowingLine \/ CallParseBlock

SpecBlock == InitBlock /\ [][NextBlock]_vars

\* line j is not blank and is indented no deeper than the header L[1]
EndsBlock(L, j) == Strip(L[j]) # <<>> /\ IndentOf(L[j]) <= IndentOf(L[1])

\* the header plus the lines before the first one that ends the block
BlockExtent(L) ==
    IF \E j \in 2..Len(L) : EndsBlock(L, j)
    THEN (CHOOSE j \in 2..Len(L) : EndsBlock(L, j) /\ \A k \in 2..(j - 1) : ~EndsBlock(L, k)) - 1
    ELSE Len(L)

\* a key-value line whose value starts a triple quote and does not end one
StartsMultilineString(l) ==
    IF ~parse_header(Strip(l)).ok /\ parse_key_value(Strip(l)).ok
    THEN /\ StartsWith(Strip(parse_key_value(Strip(l)).value), TQ)
         /\ ~EndsWith(Strip(parse_key_value(Strip(l)).value), TQ)
    ELSE FALSE

IsTabularBlock(L) == parse_header(Strip(L[1])).is_array /\ parse_header(Strip(L[1])).columns # <<>>

\* C19 as stated: a block consumes its header and the following lines up to,
\* and not including, the first non-blank line indented no deeper than the
\* header, whatever its children are
C19_BlockBoundary ==
    pc = "blockParsed" => top_i = BlockExtent(lines)

\* C19 corrected: the block ends at that line when the block is tabular or none
\* of its lines starts a multi-line string; blank lines never end it
C19_BlockBoundaryWithoutMultiline ==
    pc = "blockParsed"
    /\ (IsTabularBlock(lines)
        \/ \A j \in 2..BlockExtent(lines) : ~StartsMultilineString(lines[j]))
    => top_i = BlockExtent(lines)

\* a map block at indentation 2 took its child and the blank line after it and
\* stopped at the line at indentation 2
C19_Witness ==
    /\ pc = "blockParsed"
    /\ lines = <<<<" ", " ", "m", "{", "a", "}", ":">>, <<" ", " ", " ", " ", "a", ":", " ", "1">>, <<>>, <<" ", " ", "a", ":", " ", "1">>>>
    /\ top_i = 3

(***************************************************************************)
(* Scanning one token: a caller builds a string, quotes it and passes the  *)
(* quoted token, as a line, to split_line_by_delimiter.                    *)
(***************************************************************************)
SplitToken ==
    /\ pc = "quoted"
    /\ parts' = split_line_by_delimiter(quoted, delim)
    /\ pc' = "scanned"
    /\ UNCHANGED <<quoteVars, fields, delim, tokens, row, encodeVars, decodeVars>>

NextScan == TypeChar \/ Quote \/ SplitToken

SpecScan == InitQuote /\ [][NextScan]_vars

\* str holds three double quotes at position i
TripleQuoteAt(str, i) == i + 2 <= Len(str) /\ SubSeq(str, i, i + 2) = TQ

\* the token is triple-quoted, and every three-double-quote sequence between
\* its opening and its closing quotes directly follows a backslash
OnlyEscapedInside(token) ==
    /\ Len(token) >= 6
    /\ StartsWith(token, TQ) /\ EndsWith(token, TQ)
    /\ \A i \in 4..(Len(token) - 3) :
          TripleQuoteAt(token, i) => i + 2 <= Len(token) - 3 /\ i > 4 /\ token[i - 1] = BS

\* C21: a triple-quoted token whose inner three-double-quote sequences are all
\* escaped with a backslash is scanned as one field: the escaped sequence does
\* not bring the scanner back to plain mode, so a delimiter after it does not
\* end the field
C21_TripleQuoteMode ==
    (pc = "scanned" /\ OnlyEscapedInside(quoted)) => parts = <<quoted>>

(***************************************************************************)
(* Delimiter headers: a caller writes "#delimiter" lines whose value is a  *)
(* supported delimiter, another character, several characters or nothing,  *)
(* a version line and data lines, and decodes the document.                *)
(***************************************************************************)
HeaderPool ==
    {<<"#", "d", "e", "l", "i", "m", "i", "t", "e", "r", " ", ",">>,
     <<"#", "d", "e", "l", "i", "m", "i", "t", "e", "r", " ", "|">>,
     <<"#", "d", "e", "l", "i", "m", "i", "t", "e", "r", " ", ";">>,
     <<"#", "d", "e", "l", "i", "m", "i", "t", "e", "r", " ", TAB>>,
     <<"#", "d", "e", "l", "i", "m", "i", "t", "e", "r", " ", BS, "t">>,
     <<"#", "d", "e", "l", "i", "m", "i", "t", "e", "r", " ", "x">>,
     <<"#", "d", "e", "l", "i", "m", "i", "t", "e", "r", " ", "a", "b">>,
     <<"#", "d", "e", "l", "i", "m", "i", "t", "e", "r", " ", "|", "|">>,
     <<"#", "d", "e", "l", "i", "m", "i", "t", "e", "r">>,
     <<"#", "v", "e", "r", "s", "i", "o", "n", " ", "1", ".", "0">>,
     <<"k", "[", "2", "]", ":", " ", "1", ",", " ", "2">>,
     <<"k", "[", "2", "]", ":", " ", "1", "x", "2">>}

AddHeaderLine ==
    /\ pc = "doc"
    /\ Len(doc) < MaxLines
    /\ \E l \in HeaderPool : doc' = Append(doc, l)
    /\ UNCHANGED <<pc, quoteVars, splitVars, data, options, text, decodeVars>>

NextHeaders == AddHeaderLine \/ DecodeNext

SpecHeaders == Init /\ [][NextHeaders]_vars

\* the values of types.Delimiter
SupportedDelimiters == {<<",">>, <<"|">>, <<";">>, <<TAB>>}

\* C22: once the header phase of decode is over, the active delimiter is one of
\* the four supported characters, whatever the "#delimiter" lines held
C22_DelimiterDomain ==
    pc \in {"data", "returned"} => delimiter \in SupportedDelimiters

(***************************************************************************)
(* Encoding under options: a caller picks a value and EncodeOptions (the   *)
(* delimiter forced or left empty for select_best_delimiter, a low or the  *)
(* default single_line_threshold, include_types either way), encodes the   *)
(* value and decodes the text.                                             *)
(***************************************************************************)
LowThreshold == 6

\* scalars, maps with scalar, list, map and multi-line children, nested lists
\* and lists of maps with "col" keys
ShapedValues ==
    <<VInt(1), VStr(<<"x">>), VStr(<<"x", NL, "y">>), VMap(<<>>), VList(<<>>),
      VMap(<<[k |-> <<"a">>, v |-> VInt(1)], [k |-> <<"b">>, v |-> VStr(<<"x">>)]>>),
      VMap(<<[k |-> <<"a">>, v |-> VBool(TRUE)], [k |-> <<"b">>, v |-> VNull]>>),
      VMap(<<[k |-> <<"a">>, v |-> VStr(<<"x", NL, "y">>)], [k |-> <<"b">>, v |-> VInt(1)]>>),
      VMap(<<[k |-> <<"a">>, v |-> VList(<<VInt(1)>>)], [k |-> <<"b">>, v |-> VInt(1)]>>),
      VMap(<<[k |-> <<"a">>, v |-> VMap(<<[k |-> <<"b">>, v |-> VInt(1)]>>)],
             [k |-> <<"c">>, v |-> VInt(1)]>>),
      VMap(<<[k |-> <<"a">>, v |-> VStr(<<"u", "v", "w", "x", "y", "z">>)]>>),
      VMap(<<[k |-> <<"a">>, v |-> VStr(<<"a", ",", "b">>)], [k |-> <<"b">>, v |-> VStr(<<"c", ",", "d">>)]>>),
      VList(<<VInt(1), VInt(2), VInt(3)>>),
      VList(<<VInt(1), VInt(2), VInt(3), VInt(4)>>),
      VList(<<VStr(<<"a", ",", "b", "|", "c">>), VList(<<VStr(<<"d", ",", "e", "|", "f", ";">>)>>)>>),
      VList(<<VMap(<<[k |-> <<"c", "o", "l", "1">>, v |-> VStr(<<"a", ",", "b">>)]>>)>>),
      VList(<<VMap(<<[k |-> <<"c", "o", "l", "1">>, v |-> VStr(<<"a", TAB, "b">>)]>>)>>),
      VList(<<VMap(<<[k |-> <<"a">>, v |-> VStr(<<"a", ",", "b">>)]>>),
              VMap(<<[k |-> <<"c", "o", "l">>, v |-> VStr(<<"x">>)]>>)>>),
      VMap(<<[k |-> <<"k">>, v |-> VMap(<<[k |-> <<"j">>, v |-> VList(<<VStr(<<"a", ",", "b">>)>>)]>>)]>>),
      VList(<<VStr(<<"a", ",", "b", "|", "c">>), VStr(<<"a", TAB, "b">>)>>),
      VMap(<<[k |-> <<"a", ",", "b">>, v |-> VList(<<VStr(<<"x">>)>>)]>>),
      VMap(<<[k |-> <<"a">>, v |-> VStr(<<NL, "x">>)], [k |-> <<"b">>, v |-> VInt(1)]>>),
      VMap(<<[k |-> <<"a">>, v |-> VStr(<<"x", NL, TAB, "y">>)], [k |-> <<"b">>, v |-> VInt(1)]>>)>>

EncodeValues == DelimiterValues \o ShapedValues

InitEncode ==
    /\ pc = "value"
    /\ s = <<>>
    /\ quoted = <<>>
    /\ unquoted = <<>>
    /\ fields = <<>>
    /\ delim = <<",">>
    /\ tokens = <<>>
    /\ row = <<>>
    /\ parts = <<>>
    /\ doc = <<>>
    /\ \E n \in 1..Len(EncodeValues) : data = EncodeValues[n]
    /\ \E d \in {<<>>, <<",">>, <<"|">>, <<";">>, <<TAB>>} :
       \E th \in {LowThreshold, DefaultEncodeOptions.single_line_threshold} :
       \E ty \in BOOLEAN :
          options = [DefaultEncodeOptions EXCEPT !.delimiter = d,
                                                 !.single_line_threshold = th,
                                                 !.include_types = ty]
    /\ text = <<>>
    /\ lines = <<>>
    /\ delimiter = <<",">>
    /\ start_idx = 0
    /\ top_i = 0
    /\ result = VMap(<<>>)
    /\ ret = VNull
    /\ error = ""
    /\ strict = FALSE

NextEncode == Encode \/ DecodeNext

SpecEncode == InitEncode /\ [][NextEncode]_vars

\* the lines of the encoded text
OutputLines == splitlines(text)

\* the number of header lines the claim expects for the resolved delimiter
ExpectedHeaderCount == IF ResolveDelimiter(data, options) = <<",">> THEN 1 ELSE 2

\* C23: the first line of the encoded text is "#version <version>"; the second
\* is "#delimiter <d>" exactly when the resolved delimiter d is not the comma,
\* the tab written as itself; no later line is a header line
C23_EncoderHeaders ==
    pc = "encoded" =>
        /\ OutputLines[1] = VersionTag \o <<" ">> \o options.version
        /\ ResolveDelimiter(data, options) # <<",">> =>
               OutputLines[2] = DelimiterTag \o <<" ">> \o ResolveDelimiter(data, options)
        /\ \A i \in (ExpectedHeaderCount + 1)..Len(OutputLines) : ~StartsWith(OutputLines[i], <<"#">>)
        /\ Len(OutputLines) > ExpectedHeaderCount

\* a list of rows with a "col" key encoded with no delimiter forced: the tab is
\* selected and written as the second line
C23_Witness ==
    /\ pc = "encoded"
    /\ options.delimiter = <<>>
    /\ data.t = "list"
    /\ Len(OutputLines) = 4
    /\ OutputLines[2] = DelimiterTag \o <<" ", TAB>>

(***************************************************************************)
(* Type annotations: a caller encodes a two-key map whose children are     *)
(* ints at and around the bounds of u32 and i32, the other scalars, lists  *)
(* and maps, with include_types set or not.                                *)
(***************************************************************************)
TypedChildren ==
    <<VInt(0), VInt(1), VInt(65535), VInt(65536), VInt(I32Max),
      VWide(FALSE, 32768, 0), VWide(FALSE, 65535, 65535), VWide(FALSE, 65536, 0),
      VWide(FALSE, 65536, 1), VWide(FALSE, 655360, 7),
      VInt(0 - 1), VInt(0 - 65536), VInt(0 - I32Max), VWide(TRUE, 32768, 0),
      VWide(TRUE, 32768, 1), VWide(TRUE, 65536, 0),
      VNull, VBool(TRUE), VBool(FALSE), VStr(<<"x">>), VStr(<<"1">>),
      VFloat([neg |-> FALSE, whole |-> 1, frac |-> <<"5">>, exp |-> 0]),
      VList(<<VInt(1)>>), VList(<<>>), VMap(<<[k |-> <<"b">>, v |-> VInt(1)]>>), VMap(<<>>)>>

InitTypes ==
    /\ pc = "value"
    /\ s = <<>>
    /\ quoted = <<>>
    /\ unquoted = <<>>
    /\ fields = <<>>
    /\ delim = <<",">>
    /\ tokens = <<>>
    /\ row = <<>>
    /\ parts = <<>>
    /\ doc = <<>>
    /\ \E m, n \in 1..Len(TypedChildren) :
          data = VMap(<<[k |-> <<"a">>, v |-> TypedChildren[m]],
                        [k |-> <<"b">>, v |-> TypedChildren[n]]>>)
    /\ \E ty \in BOOLEAN : options = [DefaultEncodeOptions EXCEPT !.include_types = ty]
    /\ text = <<>>
    /\ lines = <<>>
    /\ delimiter = <<",">>
    /\ start_idx = 0
    /\ top_i = 0
    /\ result = VMap(<<>>)
    /\ ret = VNull
    /\ error = ""
    /\ strict = FALSE

NextTypes == Encode

SpecTypes == InitTypes /\ [][NextTypes]_vars

DigitValue(c) == CHOOSE n \in 0..9 : Digits[n + 1] = c

\* a <= b for two decimal numerals without leading zeros
DecimalLeq(a, b) ==
    \/ Len(a) < Len(b)
    \/ /\ Len(a) = Len(b)
       /\ \/ a = b
          \/ \E i \in 1..Len(a) :
                /\ SubSeq(a, 1, i - 1) = SubSeq(b, 1, i - 1)
                /\ DigitValue(a[i]) < DigitValue(b[i])

U32MaxText == <<"4", "2", "9", "4", "9", "6", "7", "2", "9", "5">>
I32MaxText == <<"2", "1", "4", "7", "4", "8", "3", "6", "4", "7">>
I32MinText == <<"2", "1", "4", "7", "4", "8", "3", "6", "4", "8">>

\* the type the claim gives the int written as the decimal numeral txt
ExpectedIntType(txt) ==
    IF txt[1] # "-" /\ DecimalLeq(txt, U32MaxText) THEN <<"u", "3", "2">>
    ELSE IF \/ txt[1] = "-" /\ DecimalLeq(Tail(txt), I32MinText)
            \/ txt[1] # "-" /\ DecimalLeq(txt, I32MaxText)
    THEN <<"i", "3", "2">>
    ELSE <<"f", "6", "4">>

\* the column definition the claim gives a child: no annotation for a list or a
\* map, else the key, a colon and the type
ExpectedColumn(pair) ==
    IF pair.v.t \in {"list", "map"} THEN pair.k
    ELSE pair.k \o <<":">> \o
         (CASE pair.v.t = "int" -> ExpectedIntType(format_primitive_value(pair.v, <<",">>, FALSE, FALSE))
            [] pair.v.t = "bool" -> <<"b", "o", "o", "l">>
            [] pair.v.t = "null" -> <<"n", "u", "l", "l">>
            [] pair.v.t = "str" -> <<"s", "t", "r">>
            [] pair.v.t = "float" -> <<"f", "6", "4">>)

\* C24: with include_types set, the header of an encoded map annotates each
\* scalar child with u32 for an int in [0, 2^32 - 1], else i32 for an int in
\* [-2^31, 2^31 - 1], else f64; bool for a boolean, null, str, f64 for a float;
\* and gives a list or map child no annotation
C24_TypeInference ==
    (pc = "encoded" /\ options.include_types) =>
        StartsWith(doc[2], RootKey \o <<"{">> \o ExpectedColumn(data.v[1]) \o <<",">>
                               \o ExpectedColumn(data.v[2]) \o <<"}", ":">>)

\* the map {a: 4294967295, b: 4294967296} was encoded under the header
\* root{a:u32,b:f64}:
C24_Witness ==
    /\ pc = "encoded"
    /\ options.include_types
    /\ doc[2] = RootKey \o <<"{", "a", ":", "u", "3", "2", ",", "b", ":", "f", "6", "4", "}", ":", " ",
                             "a", ":", " ", "4", "2", "9", "4", "9", "6", "7", "2", "9", "5", " ",
                             "b", ":", " ", "4", "2", "9", "4", "9", "6", "7", "2", "9", "6">>

\* the value is a non-empty map that encode writes under the key "root"
IsRootMap ==
    /\ data.t = "map"
    /\ data.v # <<>>
    /\ ~(Len(data.v) = 1 /\ data.v[1].v.t \in {"list", "map"})

\* no child is a list, a map or a string with a newline
NoMultilineChild ==
    \A i \in 1..Len(data.v) :
        /\ data.v[i].v.t \notin {"list", "map"}
        /\ data.v[i].v.t = "str" => ~HasChar(data.v[i].v.v, NL)

\* the text "k1: v1 k2: v2 ..." of the children
InlinePairsText ==
    Join([i \in 1..Len(data.v) |->
             data.v[i].k \o <<":", " ">>
             \o format_primitive_value(data.v[i].v, ResolveDelimiter(data, options), TRUE, FALSE)],
         <<" ">>)

\* one data line: the header, a space and the pairs
EncodedInline ==
    /\ Len(doc) = ExpectedHeaderCount + 1
    /\ StartsWith(doc[ExpectedHeaderCount + 1], RootKey \o <<"{">>)
    /\ EndsWith(doc[ExpectedHeaderCount + 1], <<"}", ":", " ">> \o InlinePairsText)

\* the header alone on its line, then the children one level deeper
EncodedMultiline ==
    /\ Len(doc) >= ExpectedHeaderCount + 1 + Len(data.v)
    /\ StartsWith(doc[ExpectedHeaderCount + 1], RootKey \o <<"{">>)
    /\ EndsWith(doc[ExpectedHeaderCount + 1], <<"}", ":">>)
    /\ \A i \in (ExpectedHeaderCount + 2)..Len(doc) : StartsWith(doc[i], Indent(1, options))

\* C25 as stated: a non-empty map is encoded inline when no child is a list, a
\* map or a string with a newline, and as a header followed by its children only
\* if some child is one
C25_InlineMap ==
    (pc = "encoded" /\ IsRootMap) =>
        IF NoMultilineChild THEN EncodedInline ELSE EncodedMultiline

\* C25 corrected: the map is encoded inline when no child is a list, a map or a
\* string with a newline and the pairs text plus one is no longer than
\* single_line_threshold; otherwise as a header followed by its children
C25_InlineMapWithinThreshold ==
    (pc = "encoded" /\ IsRootMap) =>
        IF NoMultilineChild /\ Len(InlinePairsText) + 1 <= options.single_line_threshold
        THEN EncodedInline
        ELSE EncodedMultiline

\* the map {a: "a,b", b: "c,d"} was encoded on one line under the default
\* threshold, its values quoted
C25_Witness ==
    /\ pc = "encoded"
    /\ options.single_line_threshold = DefaultEncodeOptions.single_line_threshold
    /\ options.delimiter = <<",">>
    /\ ~options.include_types
    /\ doc = <<VersionTag \o <<" ">> \o options.version,
               RootKey \o <<"{", "a", ",", "b", "}", ":", " ", "a", ":", " ", DQ, "a", ",", "b", DQ,
                            " ", "b", ":", " ", DQ, "c", ",", "d", DQ>> >>

\* the document is about a non-empty list of scalars
HasPrimitiveArray ==
    /\ HasArray
    /\ ArrayItems # <<>>
    /\ \A n \in 1..Len(ArrayItems) : ~IsContainer(ArrayItems[n])

\* the scalars of the list, formatted and joined by the delimiter
JoinedItems ==
    Join([n \in 1..Len(ArrayItems) |->
             format_primitive_value(ArrayItems[n], ResolveDelimiter(data, options), FALSE, FALSE)],
         DelimiterSep(ResolveDelimiter(data, options)))

\* the lines of the list: the header and the values on one line, or the header
\* and one indented line of values
PrimitiveArrayForm ==
    IF Len(JoinedItems) < options.single_line_threshold
    THEN SubSeq(doc, ExpectedHeaderCount + 1, Len(doc)) = << MixedHeader \o <<" ">> \o JoinedItems >>
    ELSE SubSeq(doc, ExpectedHeaderCount + 1, Len(doc))
             = << MixedHeader, Indent(1, options) \o JoinedItems >>

\* C26: a list of N scalars is written inline when its joined text is shorter
\* than single_line_threshold and as the header plus one indented line of values
\* otherwise, and decoding either form gives back the N scalars in order
C26_LongPrimitiveArray ==
    HasPrimitiveArray =>
        /\ pc \in {"encoded", "data", "returned"} => PrimitiveArrayForm
        /\ pc \in {"returned", "raised", "hung"} => (pc = "returned" /\ RoundTripEqual(data, ret))

\* a non-blank line that matches neither the block-header grammar nor the
\* key-value grammar
IsUnparseable(l) ==
    /\ Strip(l) # <<>>
    /\ ~parse_header(Strip(l)).ok
    /\ ~parse_key_value(Strip(l)).ok

\* the unparseable lines among the lines of the block
SkippedIn(L) == {j \in 2..BlockExtent(L) : IsUnparseable(L[j])}

\* the lines without the unparseable lines of the block
RECURSIVE WithoutSkipped(_, _)
WithoutSkipped(L, j) ==
    IF j > Len(L) THEN <<>>
    ELSE IF j \in SkippedIn(L) THEN WithoutSkipped(L, j + 1)
    ELSE <<L[j]>> \o WithoutSkipped(L, j + 1)

\* the block parsed with its unparseable lines taken out
ParsedWithoutSkipped ==
    ParseBlock(WithoutSkipped(lines, 1), 1, parse_header(Strip(lines[1])),
               [delimiter |-> delimiter, strict |-> strict])

\* a map or mixed-array block, none of whose lines starts a multi-line string
IsPlainBlock(L) ==
    /\ ~IsTabularBlock(L)
    /\ \A j \in 2..Len(L) : ~StartsMultilineString(L[j])

\* C27: in a map block and in a mixed-array block an unparseable line consumes
\* one line and adds nothing: the block's value is the value of the block
\* without these lines, and its count is larger by their number
C27_UnparseableSkipped ==
    (pc = "blockParsed" /\ IsPlainBlock(lines)) =>
        /\ result = ParsedWithoutSkipped.result
        /\ top_i = ParsedWithoutSkipped.consumed + Cardinality(SkippedIn(lines))

\* the delimiter the encoder chose, read off the lines it wrote
WrittenDelimiter ==
    IF Len(doc) >= 2 /\ StartsWith(doc[2], DelimiterTag \o <<" ">>)
    THEN SubSeq(doc[2], Len(DelimiterTag) + 2, Len(doc[2]))
    ELSE <<",">>

\* the characters of every string leaf of the tree, keys left out
RECURSIVE LeafChars(_)
LeafChars(value) ==
    IF value.t = "str" THEN value.v
    ELSE IF value.t = "list" THEN Concat([n \in 1..Len(value.v) |-> LeafChars(value.v[n])])
    ELSE IF value.t = "map" THEN Concat([n \in 1..Len(value.v) |-> LeafChars(value.v[n].v)])
    ELSE <<>>

Occurrences(value, c) == Len(SelectSeq(LeafChars(value), LAMBDA ch : ch = c))

\* the list the selector analyses, if there is one
SelectorSeesList == data.t = "list" \/ (data.t = "map" /\ Len(data.v) = 1 /\ data.v[1].v.t = "list")
SelectorList == IF data.t = "list" THEN data ELSE data.v[1].v

FirstHasColKey ==
    /\ SelectorList.v # <<>>
    /\ SelectorList.v[1].t = "map"
    /\ \E n \in 1..Len(SelectorList.v[1].v) :
          Len(SelectorList.v[1].v[n].k) >= 3
          /\ SubSeq(SelectorList.v[1].v[n].k, 1, 3) = <<"c", "o", "l">>

\* candidate number n of [',', '|', tab, ';'] has the fewest occurrences and is
\* the earliest such
IsFewestEarliest(n) ==
    /\ \A m \in 1..4 : Occurrences(SelectorList, Candidates[n]) <= Occurrences(SelectorList, Candidates[m])
    /\ \A m \in 1..4 : m < n => Occurrences(SelectorList, Candidates[m]) # Occurrences(SelectorList, Candidates[n])

ValueText(l) == Strip(parse_key_value(Strip(l)).value)

\* a key-value line whose value text starts with three double quotes and has no
\* unescaped closer after them
OpensString(l) ==
    /\ ~parse_header(Strip(l)).ok
    /\ parse_key_value(Strip(l)).ok
    /\ StartsWith(ValueText(l), TQ)
    /\ ~has_unescaped_triple_quote(Drop(ValueText(l), 3))

\* the first line after line i that holds an unescaped closer, 0 if there is none
ClosingLine(L, i) ==
    IF \E j \in (i + 1)..Len(L) : has_unescaped_triple_quote(L[j])
    THEN CHOOSE j \in (i + 1)..Len(L) :
             has_unescaped_triple_quote(L[j]) /\ \A k \in (i + 1)..(j - 1) : ~has_unescaped_triple_quote(L[k])
    ELSE 0

\* the value text and the raw lines up to the closing line, joined by newlines
AccumulatedText(L, i) ==
    Join(<<ValueText(L[i])>> \o SubSeq(L, i + 1, ClosingLine(L, i)), <<NL>>)

EncodedDecoder == [delimiter |-> ResolveDelimiter(data, options), strict |-> FALSE]

\* the map is encoded under "root" and its children are scalars
HasKeyValueChildren ==
    /\ data.t = "map"
    /\ data.v # <<>>
    /\ \A n \in 1..Len(data.v) : ~IsContainer(data.v[n].v)

\* C29: a key-value line that opens a triple-quoted string and does not close
\* it takes the following raw lines up to and including the first one with an
\* unescaped closer, and its value is the accumulated text unquoted; and every
\* string with a newline that the encoder wrote as a key's value decodes back
\* to itself
C29_MultilineString ==
    /\ pc \in {"encoded", "data", "returned"} =>
          \A i \in 1..Len(OutputLines) :
              (OpensString(OutputLines[i]) /\ ClosingLine(OutputLines, i) # 0) =>
                  /\ ParseLines(OutputLines, i, EncodedDecoder).consumed = ClosingLine(OutputLines, i) - i + 1
                  /\ EqualValue(ParseLines(OutputLines, i, EncodedDecoder).result,
                                VMap(<<[k |-> parse_key_value(Strip(OutputLines[i])).key,
                                        v |-> VStr(unquote_string(AccumulatedText(OutputLines, i)))]>>))
    /\ (pc \in {"returned", "raised", "hung"} /\ HasKeyValueChildren) =>
          /\ pc = "returned"
          /\ \A n \in 1..Len(data.v) :
                (data.v[n].v.t = "str" /\ HasChar(data.v[n].v.v, NL)) =>
                    /\ ret.t = "map"
                    /\ HasKey(ret.v, data.v[n].k)
                    /\ EqualValue(MapGet(ret.v, data.v[n].k), data.v[n].v)

(***************************************************************************)
(* Decoding blocks: a caller writes a document of block headers and of     *)
(* lines at several indentations, blank lines among them, and calls decode *)
(* on it.                                                                  *)
(***************************************************************************)
\* the lines a document is written from: three block headers, a blank line,
\* children at two depths, an opening and a closing triple quote, an
\* unparseable line
CursorPool ==
    {<<"t", "[", "1", "]", "{", "a", "}", ":">>,
     <<"l", "[", "1", "]", ":">>,
     <<"m", "{", "a", "}", ":">>,
     <<>>,
     <<" ", " ", "a", ":", " ", "1">>,
     <<" ", " ", "a", ":", " ", DQ, DQ, DQ, "x">>,
     <<"y", DQ, DQ, DQ>>,
     <<" ", " ", "l", "[", "1", "]", ":">>,
     <<" ", " ", " ", " ", "a", ":", " ", "1">>,
     <<" ", " ", " ", " ", "z">>}

\* the caller appends a line to the document
AddBlockLine ==
    /\ pc = "doc"
    /\ Len(doc) < MaxLines
    /\ \E l \in CursorPool : doc' = Append(doc, l)
    /\ UNCHANGED <<pc, quoteVars, splitVars, data, options, text, decodeVars>>

NextCursor == AddBlockLine \/ DecodeNext

SpecCursor == Init /\ [][NextCursor]_vars

\* the call _parse_lines(data_lines[i - 1:], ...) of the running decoder
LineCall(i) == ParseLines(data_lines, i, [delimiter |-> delimiter, strict |-> strict])

\* the lines of a block from line j on: a blank line and a row of a tabular
\* array count one, any other child counts what its own call reports
RECURSIVE ChildrenCount(_, _, _)
ChildCount(j, header_indent, tabular, sub) ==
    IF sub.hung \/ sub.error # "" \/ sub.consumed < 1 THEN 0
    ELSE sub.consumed + ChildrenCount(j + sub.consumed, header_indent, tabular)

ChildrenCount(j, header_indent, tabular) ==
    IF j > Len(data_lines) THEN 0
    ELSE IF ~IsBlank(data_lines[j]) /\ IndentOf(data_lines[j]) <= header_indent THEN 0
    ELSE IF IsBlank(data_lines[j]) \/ tabular THEN 1 + ChildrenCount(j + 1, header_indent, tabular)
    ELSE ChildCount(j, header_indent, tabular, LineCall(j))

\* the count a block header h on line i should report
BlockCount(i, h) ==
    1 + ChildrenCount(i + 1, IndentOf(data_lines[i]), h.is_array /\ h.columns # <<>>)

\* the count sub reported by the call on line i is between 1 and the number of
\* lines passed, and for a block h it is 1 plus the counts of its children
CountInRange(i, h, sub) ==
    (~sub.hung /\ sub.error = "") =>
        /\ sub.consumed >= 1
        /\ sub.consumed <= Len(data_lines) - i + 1
        /\ (h.ok /\ h.rest = <<>>) => sub.consumed = BlockCount(i, h)

\* every call the decoder can make on the data lines
CountsInRange ==
    (pc = "data" /\ top_i = 0) =>
        \A i \in 1..Len(data_lines) :
            CountInRange(i, parse_header(Strip(data_lines[i])), LineCall(i))

\* an iteration of the top-level loop moves the cursor forward, not past the end
CursorAdvances ==
    (pc = "data" /\ pc' = "data") => (top_i' > top_i /\ top_i' <= Len(data_lines))

\* C30: every call of _parse_lines and _parse_block that returns reports a
\* count c with 1 <= c <= number of lines passed, a block's count is its header
\* plus the counts of its children and blank lines, and the top-level cursor of
\* decode strictly increases and never passes the end of the lines
C30_CursorProgress == [](CountsInRange) /\ [][CursorAdvances]_vars

\* the top-level loop took the map block m{a}: with a blank line and a child in
\* one step of three lines
C30_Witness ==
    /\ pc = "data"
    /\ doc = <<<<"m", "{", "a", "}", ":">>, <<" ", " ", "a", ":", " ", DQ, DQ, DQ, "x">>, <<"y", DQ, DQ, DQ>>>>
    /\ top_i = 3
    /\ LineCall(1).consumed = 3

====
